---- MODULE Spec2Model ----
(***************************************************************************)
(* State machine of the aws-cloud-controller application core             *)
(* (src/src/app/{mod,state,handlers,actions}.rs, src/src/settings.rs,     *)
(* src/src/config/mod.rs).                                                *)
(*                                                                         *)
(* The App struct is the record `app`; the fields env_profile, tasks and  *)
(* calls of that record are the process-wide AWS_PROFILE variable, the    *)
(* spawned background workers and the cloud-client calls issued by the    *)
(* most recent step.  Times are milliseconds.  Option<T> is a sequence of *)
(* length 0 (None) or 1 (Some).  Strings that the code inspects (error    *)
(* texts) are sequences of one-character strings.                         *)
(***************************************************************************)
EXTENDS Integers, Sequences, FiniteSets, TLC

VARIABLES app, now, pc, ev, chan, ticks, draftBase

vars == <<app, now, pc, ev, chan, ticks, draftBase>>

\* ------------------------------------------------------------------ bounds

\* Iterations of the main loop explored by the full specification.
MaxTicks == 2
\* Iterations explored by the specifications with a restricted set of events.
MaxDialogTicks == 3
MaxSelectTicks == 5
MaxScheduleTicks == 6
MaxSettingsTicks == 5
MaxCommitTicks == 10
MaxAlertTicks == 6
MaxThresholdTicks == 7
MaxExpiryTicks == 2
MaxLogsTicks == 6
MaxBoostTicks == 4
MaxTerminateTicks == 5
MaxProfileTicks == 4
MaxSessionTicks == 3
MaxOpenTicks == 5
MaxNavTicks == 8
MaxPickTicks == 5
MaxScrollTicks == 5
MaxResizeTicks == 4
MaxModifyTicks == 7
MaxAdvisoryTicks == 5
MaxPanelTicks == 9
MaxLoadingTicks == 3

\* ------------------------------------------------------------- Option<T>

None == <<>>
Some(x) == <<x>>
IsSome(o) == Len(o) = 1
Unwrap(o) == o[1]

\* ---------------------------------------------------------- time helpers

\* chrono::Duration::num_seconds / num_minutes / num_hours on a millisecond
\* difference: whole units, truncated toward zero.
TruncDiv(d, unit) == IF d >= 0 THEN d \div unit ELSE -((-d) \div unit)
num_seconds(d) == TruncDiv(d, 1000)
num_minutes(d) == TruncDiv(d, 60000)
num_hours(d) == TruncDiv(d, 3600000)

\* `as u64` applied to an i64.  A negative value becomes one of at least 2^63, held here as the
\* largest integer the checker represents.
AsU64(n) == IF n >= 0 THEN n ELSE 2147483647

\* format_duration: "{}h {}m", kept as its two numbers.  Rust's % keeps the
\* sign of the dividend.
RemTrunc(n, m) == n - m * TruncDiv(n, m)
format_duration(d) == <<ToString(num_hours(d)), "h", ToString(RemTrunc(num_minutes(d), 60)), "m">>

\* The wall clock when the process starts, and the time that may pass
\* between two reads of the clock in consecutive loop iterations.
StartTime == 100 * 60000
TickRateMs == 250
Deltas == {TickRateMs, 5000, 30000}

\* ---------------------------------------------------------------- domain

Screens == {"Home", "Ec2", "Lambda", "Logs", "About"}

\* Dialog: <<kind>> or <<kind, payload...>>, all strings.
DNone == <<"None">>
DHelp == <<"Help">>
DSetup == <<"Setup">>
DSettings == <<"Settings">>
DSessionExpired == <<"SessionExpired">>
DConfirmTerminate(id) == <<"ConfirmTerminate", id>>
DScheduleAutoStop(id) == <<"ScheduleAutoStop", id>>
DAlert(msg) == <<"Alert">> \o msg
DConfigureAws == <<"ConfigureAws">>
DChangelog == <<"Changelog">>
DialogKind(d) == d[1]

\* SettingsField in declaration order.
SettingsFields == <<"RefreshInterval", "ShowLogsPanel", "LogLevel", "AlertThreshold", "SoundEnabled", "TestSound">>

\* Instances the provider may report: id, state and launch time.  At
\* StartTime i1 has been up for 89 min 40 s and i2 for 30.25 s less than an
\* hour, so that a check can find it exactly one hour old; i3 reports no
\* launch time.
Instance(id, state, launch) == [id |-> id, state |-> state, launch_time |-> launch]
LaunchOf(id) == CASE id = "i1" -> Some(StartTime - 5380 * 1000)
                  [] id = "i2" -> Some(StartTime - 3600 * 1000 + 30250)
                  [] OTHER -> None
Inst(id, state) == Instance(id, state, LaunchOf(id))
InstanceLists ==
    { <<>>,
      <<Inst("i2", "running")>>,
      <<Inst("i1", "running"), Inst("i2", "running")>>,
      <<Inst("i1", "pending"), Inst("i2", "stopped"), Inst("i3", "running")>> }
FunctionLists == { <<>>, <<"f1">>, <<"f1", "f2">> }

\* Provider error texts.
ErrExpired == <<"E","x","p","i","r","e","d","T","o","k","e","n">>
ErrDenied == <<"A","c","c","e","s","s","D","e","n","i","e","d">>
ErrTexts == {ErrExpired, ErrDenied}

\* Result of one list call: Ok(list) or Err(text).
ListOk(insts, funcs) == [ok |-> TRUE, instances |-> insts, functions |-> funcs, err |-> <<>>]
ListErr(e) == [ok |-> FALSE, instances |-> <<>>, functions |-> <<>>, err |-> e]
Ec2Results == {ListOk(l, <<>>) : l \in InstanceLists} \cup {ListErr(e) : e \in ErrTexts}
LambdaResults == {ListOk(<<>>, l) : l \in FunctionLists} \cup {ListErr(e) : e \in ErrTexts}
ListResults(screen) ==
    CASE screen \in {"Ec2", "Home"} -> Ec2Results
      [] screen = "Lambda" -> LambdaResults
      [] OTHER -> {ListErr(<<>>)}

\* ---------------------------------------------------------------- config

\* AlertConfig::default
ConfigAlertThresholdSecs == 3600
ConfigSoundEnabled == TRUE

\* -------------------------------------------------------------- settings

Settings(ri, logs, lvl, th, snd) ==
    [refresh_interval_secs |-> ri, show_logs_panel |-> logs, log_level |-> lvl,
     alert_threshold_secs |-> th, sound_enabled |-> snd]
DefaultSettings == Settings(60, FALSE, "Info", 3600, TRUE)

INTERVALS == <<15, 30, 60, 120, 300>>
THRESHOLDS == <<1800, 3600, 7200, 14400, 28800>>

\* position(): 0-based index of the first element equal to x, or dflt.
PositionOr(seq, x, dflt) ==
    IF \E i \in 1..Len(seq) : seq[i] = x
    THEN (CHOOSE i \in 1..Len(seq) : seq[i] = x /\ \A j \in 1..(i-1) : seq[j] # x) - 1
    ELSE dflt

CycleIdx(cur, len, forward) ==
    IF forward THEN (cur + 1) % len
    ELSE IF cur = 0 THEN len - 1 ELSE cur - 1

cycle_refresh_interval(s, forward) ==
    [s EXCEPT !.refresh_interval_secs =
        INTERVALS[CycleIdx(PositionOr(INTERVALS, s.refresh_interval_secs, 2), Len(INTERVALS), forward) + 1]]

cycle_alert_threshold(s, forward) ==
    [s EXCEPT !.alert_threshold_secs =
        THRESHOLDS[CycleIdx(PositionOr(THRESHOLDS, s.alert_threshold_secs, 1), Len(THRESHOLDS), forward) + 1]]

toggle_logs_panel(s) == [s EXCEPT !.show_logs_panel = ~s.show_logs_panel]
toggle_sound(s) == [s EXCEPT !.sound_enabled = ~s.sound_enabled]

cycle_log_level(s, forward) ==
    [s EXCEPT !.log_level =
        IF forward
        THEN CASE s.log_level = "Debug" -> "Info"
               [] s.log_level = "Info" -> "Warning"
               [] s.log_level = "Warning" -> "Error"
               [] s.log_level = "Error" -> "Debug"
               [] OTHER -> "Info"
        ELSE CASE s.log_level = "Debug" -> "Error"
               [] s.log_level = "Info" -> "Debug"
               [] s.log_level = "Warning" -> "Info"
               [] s.log_level = "Error" -> "Warning"
               [] OTHER -> "Info"]

\* Settings::refresh_interval, as seconds.
refresh_interval(s) == s.refresh_interval_secs

FieldNext(f) == CASE f = "RefreshInterval" -> "ShowLogsPanel"
                  [] f = "ShowLogsPanel" -> "LogLevel"
                  [] f = "LogLevel" -> "AlertThreshold"
                  [] f = "AlertThreshold" -> "SoundEnabled"
                  [] f = "SoundEnabled" -> "TestSound"
                  [] OTHER -> "RefreshInterval"
FieldPrev(f) == CASE f = "RefreshInterval" -> "TestSound"
                  [] f = "ShowLogsPanel" -> "RefreshInterval"
                  [] f = "LogLevel" -> "ShowLogsPanel"
                  [] f = "AlertThreshold" -> "LogLevel"
                  [] f = "SoundEnabled" -> "AlertThreshold"
                  [] OTHER -> "SoundEnabled"

\* ------------------------------------------------------- u16 arithmetic

SatSub(a, b) == IF a >= b THEN a - b ELSE 0
Min(a, b) == IF a <= b THEN a ELSE b
Max(a, b) == IF a >= b THEN a ELSE b
Clamp(x, lo, hi) == IF x < lo THEN lo ELSE IF x > hi THEN hi ELSE x

\* ------------------------------------------------- session-expiry texts

LowerOf(c) ==
    CASE c = "A" -> "a" [] c = "B" -> "b" [] c = "C" -> "c" [] c = "D" -> "d"
      [] c = "E" -> "e" [] c = "F" -> "f" [] c = "G" -> "g" [] c = "H" -> "h"
      [] c = "I" -> "i" [] c = "J" -> "j" [] c = "K" -> "k" [] c = "L" -> "l"
      [] c = "M" -> "m" [] c = "N" -> "n" [] c = "O" -> "o" [] c = "P" -> "p"
      [] c = "Q" -> "q" [] c = "R" -> "r" [] c = "S" -> "s" [] c = "T" -> "t"
      [] c = "U" -> "u" [] c = "V" -> "v" [] c = "W" -> "w" [] c = "X" -> "x"
      [] c = "Y" -> "y" [] c = "Z" -> "z" [] OTHER -> c
to_lowercase(s) == [i \in 1..Len(s) |-> LowerOf(s[i])]

\* str::contains
Contains(s, sub) ==
    \E k \in 0..(Len(s) - Len(sub)) : \A j \in 1..Len(sub) : s[k + j] = sub[j]

ExpiryKeywords ==
    { <<"e","x","p","i","r","e","d","t","o","k","e","n">>,
      <<"e","x","p","i","r","e","d"," ","t","o","k","e","n">>,
      <<"t","o","k","e","n"," ","i","s"," ","e","x","p","i","r","e","d">>,
      <<"s","e","c","u","r","i","t","y"," ","t","o","k","e","n">>,
      <<"i","n","v","a","l","i","d","t","o","k","e","n">>,
      <<"i","n","v","a","l","i","d"," ","t","o","k","e","n">>,
      <<"c","r","e","d","e","n","t","i","a","l","s"," ","h","a","v","e"," ","e","x","p","i","r","e","d">>,
      <<"t","h","e"," ","s","e","c","u","r","i","t","y"," ","t","o","k","e","n"," ","i","n","c","l","u","d","e","d"," ","i","n"," ","t","h","e"," ","r","e","q","u","e","s","t"," ","i","s"," ","e","x","p","i","r","e","d">>,
      <<"r","e","q","u","e","s","t","e","x","p","i","r","e","d">>,
      <<"r","e","q","u","e","s","t"," ","h","a","s"," ","e","x","p","i","r","e","d">>,
      <<"a","u","t","h","f","a","i","l","u","r","e">> }

\* is_session_expired_error comparing the text as it is, without lowering it.
is_session_expired_error_case_sensitive(error_msg) ==
    \E kw \in ExpiryKeywords : Contains(error_msg, kw)

is_session_expired_error(error_msg) ==
    \E kw \in ExpiryKeywords : Contains(to_lowercase(error_msg), kw)

\* ------------------------------------------------------ toasts (actions.rs)

add_toast(a, t, message, toast_type) ==
    [a EXCEPT !.toasts = Append(@, [message |-> message, toast_type |-> toast_type, created_at |-> t])]

ToastFresh(t, toast) == num_seconds(t - toast.created_at) < 5

cleanup_old_toasts(a, t) ==
    [a EXCEPT !.toasts = SelectSeq(@, LAMBDA toast : ToastFresh(t, toast))]

\* A cloud-client call issued by the running step, with the dialog that is
\* open when it is made.
Call(a, op, id) == [a EXCEPT !.calls = Append(@, <<op, id, DialogKind(a.dialog)>>)]

\* ---------------------------------------------------- refresh (actions.rs)

RefreshFailed(a, r) ==
    LET a1 == [a EXCEPT !.status_message = <<"Error: ">> \o r.err]
    IN IF is_session_expired_error(r.err)
       THEN [a1 EXCEPT !.dialog = DSessionExpired, !.dialog_scroll_offset = 0]
       ELSE a1

RefreshScreen(a, r) ==
    CASE a.current_screen \in {"Ec2", "Home"} ->
           LET a1 == Call(a, "list_ec2_instances", "")
           IN IF r.ok
              THEN [a1 EXCEPT !.ec2_instances = r.instances,
                              !.status_message = <<"Loaded EC2 instances", ToString(Len(r.instances))>>]
              ELSE RefreshFailed(a1, r)
      [] a.current_screen = "Lambda" ->
           LET a1 == Call(a, "list_lambda_functions", "")
           IN IF r.ok
              THEN [a1 EXCEPT !.lambda_functions = r.functions,
                              !.status_message = <<"Loaded Lambda functions", ToString(Len(r.functions))>>]
              ELSE RefreshFailed(a1, r)
      [] OTHER -> [a EXCEPT !.status_message = <<"Nothing to refresh on this screen">>]

\* refresh_data returning at a failed list call, before the final stamps.
refresh_data_bail_on_error(a, t, r) ==
    LET a1 == [a EXCEPT !.is_loading = TRUE, !.status_message = <<"Loading...">>]
        a2 == RefreshScreen(a1, r)
    IN IF a.current_screen \in {"Ec2", "Home", "Lambda"} /\ ~r.ok
       THEN a2
       ELSE [a2 EXCEPT !.is_loading = FALSE, !.last_refresh = Some(t)]

refresh_data(a, t, r) ==
    LET a1 == [a EXCEPT !.is_loading = TRUE, !.status_message = <<"Loading...">>]
        a2 == RefreshScreen(a1, r)
    IN [a2 EXCEPT !.is_loading = FALSE, !.last_refresh = Some(t)]

all_instances_stable(a) ==
    \A i \in 1..Len(a.ec2_instances) :
        a.ec2_instances[i].state \in {"running", "stopped", "terminated"}

\* activate_boost_refresh leaving the flag alone.
activate_boost_refresh_noop(a) == a

activate_boost_refresh(a) == [a EXCEPT !.boost_refresh_until_stable = TRUE]

BoostIntervalSecs == 5

\* check_auto_refresh refreshing only once the interval is exceeded.
check_auto_refresh_strict(a, t, r) ==
    IF a.current_screen = "About" \/ a.dialog # DNone
    THEN a
    ELSE LET a1 == cleanup_old_toasts(a, t)
             a2 == IF a1.boost_refresh_until_stable /\ all_instances_stable(a1)
                   THEN [a1 EXCEPT !.boost_refresh_until_stable = FALSE]
                   ELSE a1
             interval == IF a2.boost_refresh_until_stable THEN BoostIntervalSecs
                         ELSE a2.auto_refresh_interval
             should_refresh ==
                 IF IsSome(a2.last_refresh)
                 THEN AsU64(num_seconds(t - Unwrap(a2.last_refresh))) > interval
                 ELSE TRUE
         IN IF should_refresh THEN refresh_data(a2, t, r) ELSE a2

check_auto_refresh(a, t, r) ==
    IF a.current_screen = "About" \/ a.dialog # DNone
    THEN a
    ELSE LET a1 == cleanup_old_toasts(a, t)
             a2 == IF a1.boost_refresh_until_stable /\ all_instances_stable(a1)
                   THEN [a1 EXCEPT !.boost_refresh_until_stable = FALSE]
                   ELSE a1
             interval == IF a2.boost_refresh_until_stable THEN BoostIntervalSecs
                         ELSE a2.auto_refresh_interval
             should_refresh ==
                 IF IsSome(a2.last_refresh)
                 THEN AsU64(num_seconds(t - Unwrap(a2.last_refresh))) >= interval
                 ELSE TRUE
         IN IF should_refresh THEN refresh_data(a2, t, r) ELSE a2

\* ------------------------------------------- instance actions (actions.rs)

\* Vec::get(index): the 0-based index is in range.
HasSelected(a) == a.ec2_selected < Len(a.ec2_instances)
SelectedId(a) == a.ec2_instances[a.ec2_selected + 1].id

\* Result of a start/stop/terminate call.
ActOk == [ok |-> TRUE, err |-> <<>>]
ActErr(e) == [ok |-> FALSE, err |-> e]
ActResults == {ActOk} \cup {ActErr(e) : e \in ErrTexts}

\* The action refreshing the list after a failed call as well.
InstanceActionAlwaysRefresh(a, t, id, op, done, failed, res, r) ==
    LET a1 == Call(a, op, id)
    IN IF res.ok
       THEN refresh_data(
                activate_boost_refresh(
                    add_toast([a1 EXCEPT !.status_message = <<done, id>>], t, done, "Success")),
                t, r)
       ELSE refresh_data(
                add_toast([a1 EXCEPT !.status_message = <<failed>> \o res.err], t, failed, "Error"),
                t, r)

InstanceAction(a, t, id, op, done, failed, res, r) ==
    LET a1 == Call(a, op, id)
    IN IF res.ok
       THEN refresh_data(
                activate_boost_refresh(
                    add_toast([a1 EXCEPT !.status_message = <<done, id>>], t, done, "Success")),
                t, r)
       ELSE add_toast([a1 EXCEPT !.status_message = <<failed>> \o res.err], t, failed, "Error")

start_selected_instance(a, t, res, r) ==
    IF HasSelected(a)
    THEN InstanceAction([a EXCEPT !.status_message = <<"Starting", SelectedId(a)>>], t,
                        SelectedId(a), "start_instance", "Started", "Failed to start: ", res, r)
    ELSE a

stop_selected_instance(a, t, res, r) ==
    IF HasSelected(a)
    THEN InstanceAction([a EXCEPT !.status_message = <<"Stopping", SelectedId(a)>>], t,
                        SelectedId(a), "stop_instance", "Stopped", "Failed to stop: ", res, r)
    ELSE a

\* confirm_terminate_instance terminating at once, without the dialog.
confirm_terminate_instance_no_dialog(a) ==
    IF HasSelected(a) THEN Call(a, "terminate_instance", SelectedId(a)) ELSE a

confirm_terminate_instance(a) ==
    IF HasSelected(a)
    THEN [a EXCEPT !.dialog = DConfirmTerminate(SelectedId(a)), !.dialog_scroll_offset = 0]
    ELSE a

terminate_instance(a, t, instance_id, res, r) ==
    InstanceAction([a EXCEPT !.status_message = <<"Terminating", instance_id>>], t,
                   instance_id, "terminate_instance", "Terminated", "Failed to terminate: ", res, r)

open_schedule_dialog(a) ==
    IF HasSelected(a)
    THEN [a EXCEPT !.dialog = DScheduleAutoStop(SelectedId(a)), !.dialog_scroll_offset = 0]
    ELSE a

\* schedule_auto_stop pushing the entry without removing the earlier one.
schedule_auto_stop_push_only(a, t, instance_id, duration_ms) ==
    add_toast([a EXCEPT !.auto_stop_schedules = Append(@, <<instance_id, t + duration_ms>>),
                        !.status_message = <<"Scheduled auto-stop", instance_id>>],
              t, "Scheduled", "Success")

\* auto_stop_schedules: Vec<(instance_id, stop_time)>
schedule_auto_stop(a, t, instance_id, duration_ms) ==
    LET stop_time == t + duration_ms
        kept == SelectSeq(a.auto_stop_schedules, LAMBDA e : e[1] # instance_id)
    IN add_toast([a EXCEPT !.auto_stop_schedules = Append(kept, <<instance_id, stop_time>>),
                           !.status_message = <<"Scheduled auto-stop", instance_id>>],
                 t, "Scheduled", "Success")

\* ----------------------------------------------------- alerts (actions.rs)

AlertThrottleSecs == 30

\* has_schedule counting only the entries whose stop time is still ahead
\* of the running check.
has_schedule_unexpired(a, id) ==
    \E k \in 1..Len(a.auto_stop_schedules) :
        /\ a.auto_stop_schedules[k][1] = id
        /\ a.auto_stop_schedules[k][2] > Unwrap(a.last_alert_check)

has_schedule(a, id) ==
    \E k \in 1..Len(a.auto_stop_schedules) : a.auto_stop_schedules[k][1] = id

\* The threshold check_alerts compares against, in milliseconds.
AlertThresholdMs(a) == ConfigAlertThresholdSecs * 1000

AlertMsg(inst, running_ms) == <<inst.id>> \o format_duration(running_ms)

\* The loop body of check_alerts alerting at the threshold as well as past it.
ExceedsThresholdInclusive(a, t, inst) ==
    /\ inst.state = "running"
    /\ ~has_schedule(a, inst.id)
    /\ IsSome(inst.launch_time)
    /\ t - Unwrap(inst.launch_time) >= AlertThresholdMs(a)

\* Whether the loop body of check_alerts reaches the message for inst.
ExceedsThreshold(a, t, inst) ==
    /\ inst.state = "running"
    /\ ~has_schedule(a, inst.id)
    /\ IsSome(inst.launch_time)
    /\ t - Unwrap(inst.launch_time) > AlertThresholdMs(a)

SeqContains(seq, x) == \E k \in 1..Len(seq) : seq[k] = x

\* The loop body of check_alerts pushing the message without looking for it
\* in pending_alerts.
AlertInstanceNoDedup(a, t, inst) ==
    IF ExceedsThreshold(a, t, inst)
    THEN LET alert_msg == AlertMsg(inst, t - Unwrap(inst.launch_time))
         IN [a EXCEPT !.pending_alerts = Append(@, alert_msg),
                      !.dialog = DAlert(alert_msg),
                      !.dialog_scroll_offset = 0,
                      !.sounds = @ + (IF ConfigSoundEnabled THEN 1 ELSE 0)]
    ELSE a

AlertInstance(a, t, inst) ==
    IF ExceedsThreshold(a, t, inst)
    THEN LET alert_msg == AlertMsg(inst, t - Unwrap(inst.launch_time))
         IN IF ~SeqContains(a.pending_alerts, alert_msg)
            THEN [a EXCEPT !.pending_alerts = Append(@, alert_msg),
                           !.dialog = DAlert(alert_msg),
                           !.dialog_scroll_offset = 0,
                           !.sounds = @ + (IF ConfigSoundEnabled THEN 1 ELSE 0)]
            ELSE a
    ELSE a

\* for instance in &self.ec2_instances, from index i on.
RECURSIVE AlertLoop(_, _, _)
AlertLoop(a, t, i) ==
    IF i > Len(a.ec2_instances) THEN a
    ELSE AlertLoop(AlertInstance(a, t, a.ec2_instances[i]), t, i + 1)

\* check_alerts evaluating on every call.
AlertNeverThrottled(a, t) == FALSE

\* Whether this call returns at the throttle.
AlertThrottled(a, t) ==
    IsSome(a.last_alert_check) /\ num_seconds(t - Unwrap(a.last_alert_check)) < AlertThrottleSecs

check_alerts(a, t) ==
    IF AlertThrottled(a, t)
    THEN a
    ELSE AlertLoop([a EXCEPT !.last_alert_check = Some(t)], t, 1)

\* --------------------------------------------------- settings (actions.rs)

\* open_settings_dialog leaving the scroll offset of the last dialog.
open_settings_dialog_keep_scroll(a) ==
    [a EXCEPT !.settings_draft = Some(a.settings),
              !.settings_selected_field = "RefreshInterval",
              !.dialog = DSettings]

open_settings_dialog(a) ==
    [a EXCEPT !.settings_draft = Some(a.settings),
              !.settings_selected_field = "RefreshInterval",
              !.dialog = DSettings,
              !.dialog_scroll_offset = 0]

\* save_settings keeping the draft uncommitted when the file is not written.
save_settings_if_written(a, t, save_ok) ==
    IF IsSome(a.settings_draft) /\ save_ok
    THEN add_toast([a EXCEPT !.settings_draft = None,
                             !.settings = Unwrap(a.settings_draft),
                             !.auto_refresh_interval = refresh_interval(Unwrap(a.settings_draft)),
                             !.dialog = DNone],
                   t, "Settings saved", "Success")
    ELSE add_toast([a EXCEPT !.settings_draft = None, !.dialog = DNone],
                   t, "Failed to save settings", "Error")

\* save_ok: whether Settings::save wrote the file.
save_settings(a, t, save_ok) ==
    LET a1 == IF IsSome(a.settings_draft)
              THEN LET draft == Unwrap(a.settings_draft)
                       c == [a EXCEPT !.settings_draft = None,
                                      !.settings = draft,
                                      !.auto_refresh_interval = refresh_interval(draft)]
                   IN IF save_ok
                      THEN add_toast(c, t, "Settings saved", "Success")
                      ELSE add_toast(c, t, "Failed to save settings", "Error")
              ELSE a
    IN [a1 EXCEPT !.dialog = DNone]

cancel_settings(a) == [a EXCEPT !.settings_draft = None, !.dialog = DNone]

ModifyField(draft, field, forward) ==
    CASE field = "RefreshInterval" -> cycle_refresh_interval(draft, forward)
      [] field = "ShowLogsPanel" -> toggle_logs_panel(draft)
      [] field = "LogLevel" -> cycle_log_level(draft, forward)
      [] field = "AlertThreshold" -> cycle_alert_threshold(draft, forward)
      [] field = "SoundEnabled" -> toggle_sound(draft)
      [] OTHER -> draft

\* modify_current_setting editing the committed settings along with the
\* draft.
modify_current_setting_committed(a, delta) ==
    IF IsSome(a.settings_draft)
    THEN [a EXCEPT !.settings_draft =
             Some(ModifyField(Unwrap(a.settings_draft), a.settings_selected_field, delta > 0)),
                   !.settings = ModifyField(@, a.settings_selected_field, delta > 0)]
    ELSE a

modify_current_setting(a, delta) ==
    IF IsSome(a.settings_draft)
    THEN [a EXCEPT !.settings_draft =
             Some(ModifyField(Unwrap(a.settings_draft), a.settings_selected_field, delta > 0))]
    ELSE a

navigate_settings_field(a, up) ==
    [a EXCEPT !.settings_selected_field = IF up THEN FieldPrev(@) ELSE FieldNext(@)]

trigger_test_alert(a, t) ==
    add_toast([a EXCEPT !.sounds = @ + 1], t, "Test Alert", "Info")

\* ------------------------------------------- auth and profile (actions.rs)

Spawn(a, task) == [a EXCEPT !.tasks = Append(@, task)]

\* The std::thread running `aws sso login`.
SsoTask(profile) == [kind |-> "sso", profile |-> profile]
\* The tokio task building the new client.
ActivateTask(name) == [kind |-> "activate", profile |-> Some(name)]

login_with_sso(a, t) ==
    LET a1 == add_toast([a EXCEPT !.status_message = <<"Initiating AWS SSO Login...">>],
                        t, "Starting AWS SSO login", "Info")
        profile == IF a.available_profiles # <<>>
                   THEN Some(a.available_profiles[a.selected_profile_index + 1])
                   ELSE None
    IN Spawn(a1, SsoTask(profile))

activate_profile(a, t, profile_name) ==
    LET a1 == add_toast([a EXCEPT !.status_message = <<"Switching to profile", profile_name>>],
                        t, "Switching to profile", "Info")
    IN Spawn([a1 EXCEPT !.is_loading = TRUE, !.env_profile = Some(profile_name)],
             ActivateTask(profile_name))

\* AsyncNotification
SsoLoginSuccess(profile) == [kind |-> "SsoLoginSuccess", client |-> "", profile |-> profile, err |-> ""]
SsoLoginFailed(err) == [kind |-> "SsoLoginFailed", client |-> "", profile |-> "", err |-> err]
ProfileActivated(client, name) == [kind |-> "ProfileActivated", client |-> client, profile |-> name, err |-> ""]
ProfileActivationFailed(err) == [kind |-> "ProfileActivationFailed", client |-> "", profile |-> "", err |-> err]

\* Texts the login helper may print on failure; the first is the one
\* containing "Missing the following required SSO configuration".
SsoMissingConfig == "Missing the following required SSO configuration"
SsoErrors == {SsoMissingConfig, "login cancelled"}

\* The ProfileActivated arm leaving the open dialog as it is.
ApplyNotificationKeepDialog(a, t, n, r) ==
    CASE n.kind = "SsoLoginSuccess" ->
           activate_profile(add_toast(a, t, "Login successful", "Success"), t, n.profile)
      [] n.kind = "SsoLoginFailed" ->
           IF n.err = SsoMissingConfig
           THEN [add_toast(a, t, "SSO Config Missing", "Error")
                    EXCEPT !.status_message = <<"SSO Configuration Missing!">>]
           ELSE add_toast(a, t, "Login Failed", "Error")
      [] n.kind = "ProfileActivated" ->
           refresh_data(
               add_toast([a EXCEPT !.aws_client = n.client,
                                   !.aws_configured = TRUE,
                                   !.active_profile_name = Some(n.profile),
                                   !.is_loading = FALSE],
                         t, "Active Profile", "Success"),
               t, r)
      [] OTHER ->
           add_toast([a EXCEPT !.is_loading = FALSE], t, "Failed to switch profile", "Error")

\* One iteration of the while-let loop of check_async_notifications.
ApplyNotification(a, t, n, r) ==
    CASE n.kind = "SsoLoginSuccess" ->
           activate_profile(add_toast(a, t, "Login successful", "Success"), t, n.profile)
      [] n.kind = "SsoLoginFailed" ->
           IF n.err = SsoMissingConfig
           THEN [add_toast(a, t, "SSO Config Missing", "Error")
                    EXCEPT !.status_message = <<"SSO Configuration Missing!">>]
           ELSE add_toast(a, t, "Login Failed", "Error")
      [] n.kind = "ProfileActivated" ->
           refresh_data(
               add_toast([a EXCEPT !.aws_client = n.client,
                                   !.aws_configured = TRUE,
                                   !.active_profile_name = Some(n.profile),
                                   !.is_loading = FALSE,
                                   !.dialog = DNone],
                         t, "Active Profile", "Success"),
               t, r)
      [] OTHER ->
           add_toast([a EXCEPT !.is_loading = FALSE], t, "Failed to switch profile", "Error")

\* -------------------------------------------------- handlers (handlers.rs)

U16(n) == n % 65536

\* Events: AppEvent, with poll_event's None as kind "NoEvent".
Ev(kind) == [kind |-> kind, a |-> 0, b |-> 0]
EvNavigateTab(idx) == [kind |-> "NavigateTab", a |-> idx, b |-> 0]
EvModify(delta) == [kind |-> "ModifySettingValue", a |-> delta, b |-> 0]
EvResize(w, h) == [kind |-> "Resize", a |-> w, b |-> h]

\* Inputs a handler may consume: the result of its start/stop/terminate call,
\* of its list call, and of writing the settings file.
Inputs(res, r, save_ok) == [res |-> res, r |-> r, save_ok |-> save_ok]

FieldIndex(f) == PositionOr(SettingsFields, f, 0)

\* ensure_dialog_selection_visible scrolling one line short when the
\* selection is below the window.
ensure_dialog_selection_visible_short(a) ==
    IF DialogKind(a.dialog) \notin {"ConfigureAws", "SessionExpired", "Settings"}
    THEN a
    ELSE LET h == a.window_size[2]
             percent_y == IF a.dialog = DSettings THEN 60 ELSE 50
             top_padding == 5
             chunk_height == U16(h * percent_y) \div 100
             available_height == SatSub(chunk_height, 3)
             target_line == IF a.dialog = DSettings
                            THEN top_padding + FieldIndex(a.settings_selected_field) * 2
                            ELSE top_padding + U16(a.selected_profile_index)
         IN IF target_line < a.dialog_scroll_offset
            THEN [a EXCEPT !.dialog_scroll_offset = target_line]
            ELSE IF target_line >= a.dialog_scroll_offset + available_height
                 THEN [a EXCEPT !.dialog_scroll_offset = SatSub(target_line, available_height)]
                 ELSE a

ensure_dialog_selection_visible(a) ==
    IF DialogKind(a.dialog) \notin {"ConfigureAws", "SessionExpired", "Settings"}
    THEN a
    ELSE LET h == a.window_size[2]
             percent_y == IF a.dialog = DSettings THEN 60 ELSE 50
             top_padding == 5
             chunk_height == U16(h * percent_y) \div 100
             available_height == SatSub(chunk_height, 3)
             target_line == IF a.dialog = DSettings
                            THEN top_padding + FieldIndex(a.settings_selected_field) * 2
                            ELSE top_padding + U16(a.selected_profile_index)
         IN IF target_line < a.dialog_scroll_offset
            THEN [a EXCEPT !.dialog_scroll_offset = target_line]
            ELSE IF target_line >= a.dialog_scroll_offset + available_height
                 THEN [a EXCEPT !.dialog_scroll_offset =
                          Min(SatSub(target_line, available_height) + 1, 65535)]
                 ELSE a

ScrollUp(a) == [a EXCEPT !.dialog_scroll_offset = SatSub(@, 1)]
\* Scrolling down with no upper limit.
ScrollDownUnbounded(a, max_scroll) == [a EXCEPT !.dialog_scroll_offset = @ + 1]

ScrollDownTo(a, max_scroll) ==
    IF a.dialog_scroll_offset < max_scroll
    THEN [a EXCEPT !.dialog_scroll_offset = @ + 1]
    ELSE a

DialogPercentY(a) ==
    CASE DialogKind(a.dialog) = "Setup" -> 70
      [] DialogKind(a.dialog) = "Help" -> 60
      [] DialogKind(a.dialog) = "Settings" -> 60
      [] DialogKind(a.dialog) = "SessionExpired" -> 60
      [] DialogKind(a.dialog) = "ConfirmTerminate" -> 30
      [] DialogKind(a.dialog) = "ScheduleAutoStop" -> 30
      [] DialogKind(a.dialog) = "Alert" -> 25
      [] DialogKind(a.dialog) = "ConfigureAws" -> 50
      [] DialogKind(a.dialog) = "Changelog" -> 70
      [] OTHER -> 0

DialogContentLines(a) ==
    CASE DialogKind(a.dialog) = "Setup" -> 27
      [] DialogKind(a.dialog) = "Help" -> 27
      [] DialogKind(a.dialog) = "Settings" -> 15
      [] DialogKind(a.dialog) = "SessionExpired" -> 25
      [] DialogKind(a.dialog) = "ConfirmTerminate" -> 12
      [] DialogKind(a.dialog) = "ScheduleAutoStop" -> 12
      [] DialogKind(a.dialog) = "Alert" -> 10
      [] DialogKind(a.dialog) = "ConfigureAws" -> 5 + U16(Max(Len(a.available_profiles), 1)) + 1
      [] DialogKind(a.dialog) = "Changelog" -> 50
      [] OTHER -> 0

DialogMaxScroll(a) ==
    LET chunk_height == U16(a.window_size[2] * DialogPercentY(a)) \div 100
        available_height == SatSub(chunk_height, 2)
    IN SatSub(DialogContentLines(a), available_height)

IsProfileDialog(a) == DialogKind(a.dialog) \in {"ConfigureAws", "SessionExpired"}

\* The Up arm calling navigate_settings_field at every field.
DialogUpWrapping(a) ==
    IF a.dialog = DSettings
    THEN ensure_dialog_selection_visible(navigate_settings_field(a, TRUE))
    ELSE IF IsProfileDialog(a)
         THEN IF a.selected_profile_index > 0
              THEN ensure_dialog_selection_visible([a EXCEPT !.selected_profile_index = @ - 1])
              ELSE ScrollUp(a)
         ELSE ScrollUp(a)

DialogUp(a) ==
    IF a.dialog = DSettings
    THEN IF a.settings_selected_field # "RefreshInterval"
         THEN ensure_dialog_selection_visible(navigate_settings_field(a, TRUE))
         ELSE ScrollUp(a)
    ELSE IF IsProfileDialog(a)
         THEN IF a.selected_profile_index > 0
              THEN ensure_dialog_selection_visible([a EXCEPT !.selected_profile_index = @ - 1])
              ELSE ScrollUp(a)
         ELSE ScrollUp(a)

\* The Down arm moving the highlighted profile past the end of the list,
\* back to the first one.
DialogDownWrapping(a) ==
    LET max_scroll == DialogMaxScroll(a)
    IN IF a.dialog = DSettings
       THEN IF a.settings_selected_field # "TestSound"
            THEN ensure_dialog_selection_visible(navigate_settings_field(a, FALSE))
            ELSE ScrollDownTo(a, max_scroll)
       ELSE IF IsProfileDialog(a)
            THEN IF a.available_profiles # <<>>
                 THEN ensure_dialog_selection_visible(
                         [a EXCEPT !.selected_profile_index = (@ + 1) % Len(a.available_profiles)])
                 ELSE ScrollDownTo(a, max_scroll)
            ELSE ScrollDownTo(a, max_scroll)

DialogDown(a) ==
    LET max_scroll == DialogMaxScroll(a)
    IN IF a.dialog = DSettings
       THEN IF a.settings_selected_field # "TestSound"
            THEN ensure_dialog_selection_visible(navigate_settings_field(a, FALSE))
            ELSE ScrollDownTo(a, max_scroll)
       ELSE IF IsProfileDialog(a)
            THEN IF a.available_profiles # <<>>
                    /\ a.selected_profile_index < SatSub(Len(a.available_profiles), 1)
                 THEN ensure_dialog_selection_visible([a EXCEPT !.selected_profile_index = @ + 1])
                 ELSE ScrollDownTo(a, max_scroll)
            ELSE ScrollDownTo(a, max_scroll)

ScheduleDurationMs == 3600 * 1000

DialogEnter(a, t, in) ==
    CASE DialogKind(a.dialog) = "ConfirmTerminate" ->
           terminate_instance([a EXCEPT !.dialog = DNone], t, a.dialog[2], in.res, in.r)
      [] DialogKind(a.dialog) = "ScheduleAutoStop" ->
           schedule_auto_stop([a EXCEPT !.dialog = DNone], t, a.dialog[2], ScheduleDurationMs)
      [] DialogKind(a.dialog) = "Settings" ->
           IF a.settings_selected_field = "TestSound"
           THEN trigger_test_alert(a, t)
           ELSE save_settings(a, t, in.save_ok)
      [] IsProfileDialog(a) ->
           IF a.available_profiles # <<>>
           THEN activate_profile(a, t, a.available_profiles[a.selected_profile_index + 1])
           ELSE a
      [] DialogKind(a.dialog) \in {"Alert", "Help", "Setup", "Changelog"} ->
           [a EXCEPT !.dialog = DNone]
      [] OTHER -> a

\* Quit inside a dialog also raising the quit flag.
CloseDialogAndQuit(a) ==
    [a EXCEPT !.dialog = DNone, !.settings_draft = None, !.should_quit = TRUE]

\* The Quit and CancelSettings arms of handle_dialog_event.
CloseDialog(a) ==
    IF a.dialog = DSettings THEN cancel_settings(a) ELSE [a EXCEPT !.dialog = DNone]

\* The Refresh arm running the refresh with the dialog still open.
DialogRefreshKeepDialog(a, t, in) ==
    IF a.dialog = DSessionExpired
    THEN refresh_data(a, t, in.r)
    ELSE a

\* The Refresh arm of handle_dialog_event.
DialogRefresh(a, t, in) ==
    IF a.dialog = DSessionExpired
    THEN refresh_data([a EXCEPT !.dialog = DNone], t, in.r)
    ELSE a

handle_dialog_event(a, t, e, in) ==
    CASE e.kind = "Quit" -> CloseDialog(a)
      [] e.kind = "Up" -> DialogUp(a)
      [] e.kind = "Down" -> DialogDown(a)
      [] e.kind = "Enter" -> DialogEnter(a, t, in)
      [] e.kind = "ConfigureAws" -> [a EXCEPT !.dialog = DConfigureAws, !.dialog_scroll_offset = 0]
      [] e.kind = "ModifySettingValue" ->
           IF a.dialog = DSettings THEN modify_current_setting(a, e.a) ELSE a
      [] e.kind = "CancelSettings" -> CloseDialog(a)
      [] e.kind = "SsoLogin" ->
           IF DialogKind(a.dialog) \in {"SessionExpired", "ConfigureAws", "Setup"}
           THEN login_with_sso(a, t)
           ELSE a
      [] e.kind = "Refresh" -> DialogRefresh(a, t, in)
      [] OTHER -> a

\* Content height of the scrolling screens.
ContentHeight(screen, w) ==
    CASE screen = "Home" -> IF w >= 100 THEN 18 ELSE 25
      [] screen = "About" -> IF w >= 100 THEN 30 ELSE 58
      [] screen = "Logs" -> 50
      [] OTHER -> 0

ChromeHeight == 8

\* move_selection wrapping around the ends of the list.
move_selection_wrapping(a, delta) ==
    CASE a.current_screen = "Ec2" /\ Len(a.ec2_instances) > 0 ->
           [a EXCEPT !.ec2_selected = (@ + delta) % Len(a.ec2_instances)]
      [] a.current_screen = "Lambda" /\ Len(a.lambda_functions) > 0 ->
           [a EXCEPT !.lambda_selected = (@ + delta) % Len(a.lambda_functions)]
      [] OTHER -> a

move_selection(a, delta) ==
    CASE a.current_screen = "Ec2" ->
           IF Len(a.ec2_instances) > 0
           THEN [a EXCEPT !.ec2_selected = Clamp(@ + delta, 0, Len(a.ec2_instances) - 1)]
           ELSE a
      [] a.current_screen = "Lambda" ->
           IF Len(a.lambda_functions) > 0
           THEN [a EXCEPT !.lambda_selected = Clamp(@ + delta, 0, Len(a.lambda_functions) - 1)]
           ELSE a
      [] OTHER ->
           LET available_height == SatSub(a.window_size[2], ChromeHeight)
               max_scroll == SatSub(ContentHeight(a.current_screen, a.window_size[1]), available_height)
           IN IF delta > 0
              THEN [a EXCEPT !.scroll_offset = Min(@ + 1, max_scroll)]
              ELSE [a EXCEPT !.scroll_offset = SatSub(@, 1)]

handle_enter(a, t, in) ==
    CASE a.current_screen = "Ec2" -> refresh_data(a, t, in.r)
      [] a.current_screen = "Lambda" ->
           IF a.lambda_selected < Len(a.lambda_functions)
           THEN [a EXCEPT !.status_message =
                    <<"Lambda invocation coming soon", a.lambda_functions[a.lambda_selected + 1]>>]
           ELSE a
      [] OTHER -> a

TabScreen(a, idx) ==
    CASE idx = 0 -> "Home"
      [] idx = 1 -> "Ec2"
      [] idx = 2 -> "Lambda"
      [] idx = 3 -> "About"
      [] idx = 4 -> "Logs"
      [] OTHER -> a.current_screen

\* NavigateTab without the check of show_logs_panel.
NavigateTabAnyScreen(a, idx) ==
    IF TabScreen(a, idx) # a.current_screen
    THEN [a EXCEPT !.current_screen = TabScreen(a, idx), !.scroll_offset = 0]
    ELSE a

NavigateTab(a, idx) ==
    LET first == TabScreen(a, idx)
        new_screen == IF first = "Logs" /\ ~a.settings.show_logs_panel
                      THEN a.current_screen
                      ELSE first
    IN IF new_screen # a.current_screen
       THEN [a EXCEPT !.current_screen = new_screen, !.scroll_offset = 0]
       ELSE a

\* The match of handle_event, reached when no dialog is open.
HandleTopLevel(a, t, e, in) ==
    CASE e.kind = "Quit" -> [a EXCEPT !.should_quit = TRUE]
      [] e.kind = "NavigateTab" -> NavigateTab(a, e.a)
      [] e.kind = "Up" -> move_selection(a, -1)
      [] e.kind = "Down" -> move_selection(a, 1)
      [] e.kind = "Refresh" -> refresh_data(a, t, in.r)
      [] e.kind = "Start" -> start_selected_instance(a, t, in.res, in.r)
      [] e.kind = "Stop" -> stop_selected_instance(a, t, in.res, in.r)
      [] e.kind = "Terminate" -> confirm_terminate_instance(a)
      [] e.kind = "Schedule" -> open_schedule_dialog(a)
      [] e.kind = "ShowHelp" -> [a EXCEPT !.dialog = DHelp, !.dialog_scroll_offset = 0]
      [] e.kind = "Enter" -> handle_enter(a, t, in)
      [] e.kind = "Resize" -> [a EXCEPT !.window_size = <<e.a, e.b>>]
      [] e.kind = "OpenSettings" -> open_settings_dialog(a)
      [] e.kind = "ConfigureAws" -> [a EXCEPT !.dialog = DConfigureAws, !.dialog_scroll_offset = 0]
      [] e.kind = "ShowChangelog" ->
           IF a.current_screen = "About"
           THEN [a EXCEPT !.dialog = DChangelog, !.dialog_scroll_offset = 0]
           ELSE a
      [] OTHER -> a

\* handle_event with OpenSettings served before the dialog dispatch.
handle_event_settings_first(a, t, e, in) ==
    IF e.kind = "OpenSettings" THEN open_settings_dialog(a)
    ELSE IF a.dialog # DNone THEN handle_dialog_event(a, t, e, in)
    ELSE HandleTopLevel(a, t, e, in)

handle_event(a, t, e, in) ==
    IF a.dialog # DNone
    THEN handle_dialog_event(a, t, e, in)
    ELSE HandleTopLevel(a, t, e, in)

\* ------------------------------------------------------- App::new (mod.rs)

ProfileLists == { <<"dev", "prod">> }
WindowSizes == { <<80, 24>>, <<120, 12>> }

NewApp(configured, profiles) ==
    [ should_quit |-> FALSE,
      current_screen |-> "Home",
      aws_configured |-> configured,
      status_message |-> IF configured THEN <<"Ready">> ELSE <<"AWS credentials not configured">>,
      is_loading |-> FALSE,
      ec2_instances |-> <<>>,
      ec2_selected |-> 0,
      auto_stop_schedules |-> <<>>,
      lambda_functions |-> <<>>,
      lambda_selected |-> 0,
      dialog |-> IF configured THEN DNone ELSE DSetup,
      pending_alerts |-> <<>>,
      last_alert_check |-> None,
      last_refresh |-> None,
      auto_refresh_interval |-> refresh_interval(DefaultSettings),
      boost_refresh_until_stable |-> FALSE,
      toasts |-> <<>>,
      scroll_offset |-> 0,
      window_size |-> <<80, 24>>,
      dialog_scroll_offset |-> 0,
      settings |-> DefaultSettings,
      settings_selected_field |-> "RefreshInterval",
      settings_draft |-> None,
      available_profiles |-> profiles,
      selected_profile_index |-> 0,
      active_profile_name |-> Some("default"),
      aws_client |-> "default",
      env_profile |-> None,
      tasks |-> <<>>,
      calls |-> <<>>,
      sounds |-> 0 ]

Init ==
    /\ \E configured \in BOOLEAN, profiles \in ProfileLists : app = NewApp(configured, profiles)
    /\ now = StartTime
    /\ pc = "event"
    /\ ev = Ev("NoEvent")
    /\ chan = <<>>
    /\ ticks = 0
    /\ draftBase = None

\* ------------------------------------------------------- App::run (mod.rs)

\* The effects of the previous step are no longer the current ones.
Fresh(a) == [a EXCEPT !.calls = <<>>, !.sounds = 0]

AllEvents ==
    { Ev(k) : k \in {"NoEvent", "None", "Quit", "Up", "Down", "Enter", "Start", "Stop",
                     "Terminate", "Refresh", "Schedule", "ShowHelp", "OpenSettings",
                     "CancelSettings", "ConfigureAws", "SsoLogin", "ShowChangelog"} }
    \cup { EvNavigateTab(i) : i \in 0..5 }
    \cup { EvModify(d) : d \in {-1, 1} }
    \cup { EvResize(sz[1], sz[2]) : sz \in WindowSizes }

NoList == ListErr(<<>>)

\* The inputs the handler of e consumes in state a.
InputsFor(a, e) ==
    CASE (a.dialog = DNone /\ e.kind \in {"Start", "Stop"})
         \/ (DialogKind(a.dialog) = "ConfirmTerminate" /\ e.kind = "Enter") ->
           { Inputs(res, r, TRUE) : res \in ActResults, r \in ListResults(a.current_screen) }
      [] (a.dialog = DNone /\ e.kind \in {"Refresh", "Enter"})
         \/ (a.dialog = DSessionExpired /\ e.kind = "Refresh") ->
           { Inputs(ActOk, r, TRUE) : r \in ListResults(a.current_screen) }
      [] a.dialog = DSettings /\ e.kind = "Enter" ->
           { Inputs(ActOk, NoList, ok) : ok \in BOOLEAN }
      [] OTHER -> { Inputs(ActOk, NoList, TRUE) }

\* History of the Settings dialog session: the committed settings and
\* interval when open_settings_dialog ran; whether a ModifySettingValue
\* has been applied since; "open" while only Up, Down and
\* ModifySettingValue events have followed, "cancelled" right after the
\* Quit or CancelSettings that ended such a sequence.
DraftBaseAfter(a, e, base) ==
    CASE a.dialog = DNone /\ e.kind = "OpenSettings" ->
           Some([settings |-> a.settings, interval |-> a.auto_refresh_interval,
                 edited |-> FALSE, phase |-> "open"])
      [] e.kind \in {"Up", "Down", "NoEvent"} -> base
      [] e.kind = "ModifySettingValue" /\ IsSome(base) /\ Unwrap(base).phase = "open" ->
           Some([Unwrap(base) EXCEPT !.edited = TRUE])
      [] e.kind \in {"Quit", "CancelSettings"} /\ IsSome(base) /\ Unwrap(base).phase = "open" ->
           Some([Unwrap(base) EXCEPT !.phase = "cancelled"])
      [] OTHER -> None

\* refresh_data with `?` on the list call: a failed call is returned to the
\* caller.
refresh_data_result_propagating(r) == IF r.ok THEN "Ok" ELSE "Err"

\* The Result refresh_data returns: a failed list call is written to the
\* status message (and the SessionExpired dialog) and Ok(()) is returned.
refresh_data_result(r) == "Ok"

\* The Result that handle_event and check_auto_refresh hand to run, which
\* returns at an Err.  a2 is the state they leave and r the result of the
\* list call, if they made one: every call of refresh_data they make is
\* followed by `?`, and nothing else in them returns an Err.
PropagatedResult(a2, r) ==
    IF \E k \in 1..Len(a2.calls) :
          a2.calls[k][1] \in {"list_ec2_instances", "list_lambda_functions"}
    THEN refresh_data_result(r)
    ELSE "Ok"

\* Time passed since the previous iteration read the clock: one tick_rate
\* when a key arrives, any of Deltas when poll_event times out.
Elapsed(e) == IF e.kind = "NoEvent" THEN Deltas ELSE {TickRateMs}

\* poll_event and handle_event of one loop iteration, with the events of E
\* and MaxT iterations at most.
EventStep(E, MaxT) ==
    /\ pc = "event"
    /\ ticks < MaxT
    /\ \E e \in E : \E d \in Elapsed(e) :
          /\ now' = now + d
          /\ ev' = e
          /\ \E in \in InputsFor(app, e) :
                /\ app' = IF e.kind = "NoEvent" THEN Fresh(app)
                          ELSE handle_event(Fresh(app), now + d, e, in)
                /\ pc' = IF e.kind # "NoEvent" /\ PropagatedResult(app', in.r) = "Err"
                         THEN "aborted"
                         ELSE "notify"
          /\ draftBase' = DraftBaseAfter(app, e, draftBase)
    /\ ticks' = ticks + 1
    /\ UNCHANGED chan

\* check_async_notifications: one notification per step, until try_recv
\* finds the channel empty.
\* check_async_notifications written with `if let`: one notification at
\* most per call.
NotifyStepOnce ==
    /\ pc = "notify"
    /\ IF chan = <<>>
       THEN /\ app' = Fresh(app)
            /\ UNCHANGED chan
       ELSE /\ \E r \in ListResults(app.current_screen) :
                  app' = ApplyNotification(Fresh(app), now, Head(chan), r)
            /\ chan' = Tail(chan)
    /\ pc' = "alerts"
    /\ UNCHANGED <<now, ev, ticks, draftBase>>

NotifyStep ==
    /\ pc = "notify"
    /\ IF chan = <<>>
       THEN /\ app' = Fresh(app)
            /\ pc' = "alerts"
            /\ UNCHANGED chan
       ELSE /\ \E r \in ListResults(app.current_screen) :
                  app' = ApplyNotification(Fresh(app), now, Head(chan), r)
            /\ chan' = Tail(chan)
            /\ UNCHANGED pc
    /\ UNCHANGED <<now, ev, ticks, draftBase>>

\* check_alerts called ahead of check_async_notifications.
AlertStepBeforeNotify ==
    /\ pc = "notify"
    /\ app' = check_alerts(Fresh(app), now)
    /\ pc' = "refresh"
    /\ UNCHANGED <<now, ev, chan, ticks, draftBase>>

AlertStep ==
    /\ pc = "alerts"
    /\ app' = check_alerts(Fresh(app), now)
    /\ pc' = "refresh"
    /\ UNCHANGED <<now, ev, chan, ticks, draftBase>>

AutoRefreshStep ==
    /\ pc = "refresh"
    /\ \E r \in ListResults(app.current_screen) :
          /\ app' = check_auto_refresh(Fresh(app), now, r)
          /\ pc' = IF PropagatedResult(app', r) = "Err" THEN "aborted" ELSE "quit"
    /\ UNCHANGED <<now, ev, chan, ticks, draftBase>>

QuitStep ==
    /\ pc = "quit"
    /\ pc' = IF app.should_quit THEN "done" ELSE "event"
    /\ UNCHANGED <<app, now, ev, chan, ticks, draftBase>>

RemoveAt(seq, i) == SubSeq(seq, 1, i - 1) \o SubSeq(seq, i + 1, Len(seq))

\* The spawned task of activate_profile: AwsClient::new reads the
\* process-wide profile when it runs, then the result is sent.
ActivateWorker ==
    /\ \E i \in 1..Len(app.tasks) :
          /\ app.tasks[i].kind = "activate"
          /\ chan' = Append(chan, ProfileActivated(Unwrap(app.env_profile), Unwrap(app.tasks[i].profile)))
          /\ app' = [app EXCEPT !.tasks = RemoveAt(@, i)]
    /\ UNCHANGED <<now, pc, ev, ticks, draftBase>>

\* The thread of login_with_sso: the helper exits with success or failure.
SsoWorker ==
    /\ \E i \in 1..Len(app.tasks) :
          /\ app.tasks[i].kind = "sso"
          /\ \E n \in { SsoLoginSuccess(IF IsSome(app.tasks[i].profile)
                                         THEN Unwrap(app.tasks[i].profile) ELSE "default") }
                      \cup { SsoLoginFailed(e) : e \in SsoErrors } :
                chan' = Append(chan, n)
          /\ app' = [app EXCEPT !.tasks = RemoveAt(@, i)]
    /\ UNCHANGED <<now, pc, ev, ticks, draftBase>>

Next ==
    \/ EventStep(AllEvents, MaxTicks)
    \/ NotifyStep
    \/ AlertStep
    \/ AutoRefreshStep
    \/ QuitStep
    \/ ActivateWorker
    \/ SsoWorker

Spec == Init /\ [][Next]_vars

\* ------------------------------------------- restricted sets of events

\* The steps of one loop iteration after the event.
TickSteps == NotifyStep \/ AlertStep \/ AutoRefreshStep \/ QuitStep

\* A step that applied an event of kind k: poll_event returned it and
\* handle_event ran.
Handled(kinds) == pc = "event" /\ pc' = "notify" /\ ev'.kind \in kinds

DialogEvents ==
    { Ev(k) : k \in {"NoEvent", "ShowHelp", "Terminate", "Schedule", "Start", "Stop",
                     "OpenSettings", "Quit", "CancelSettings"} }
    \cup { EvNavigateTab(1) }
NextDialogs == EventStep(DialogEvents, MaxDialogTicks) \/ TickSteps
SpecDialogs == Init /\ [][NextDialogs]_vars

SelectEvents ==
    { Ev(k) : k \in {"NoEvent", "Up", "Down", "Refresh"} }
    \cup { EvNavigateTab(1), EvNavigateTab(2) }
NextSelect == EventStep(SelectEvents, MaxSelectTicks) \/ TickSteps
SpecSelect == Init /\ [][NextSelect]_vars

\* ------------------------------------------------------------------ C1

InertInDialogKinds ==
    {"NavigateTab", "Start", "Stop", "Terminate", "Schedule", "ShowHelp", "OpenSettings"}

\* C1: while a dialog is open, NavigateTab, Start, Stop, Terminate, Schedule,
\* ShowHelp and OpenSettings change neither the screen, the selection
\* indices, the lists, the schedules, the dialog nor the settings draft,
\* and issue no cloud-client call.
C1_InertWhileDialogOpen ==
    [][ (Handled(InertInDialogKinds) /\ app.dialog # DNone) =>
          /\ app'.current_screen = app.current_screen
          /\ app'.ec2_selected = app.ec2_selected
          /\ app'.lambda_selected = app.lambda_selected
          /\ app'.ec2_instances = app.ec2_instances
          /\ app'.lambda_functions = app.lambda_functions
          /\ app'.auto_stop_schedules = app.auto_stop_schedules
          /\ app'.dialog = app.dialog
          /\ app'.settings_draft = app.settings_draft
          /\ app'.calls = <<>> ]_vars

\* Start was applied with an instance selected while ConfirmTerminate was open.
C1_Witness ==
    /\ pc = "notify"
    /\ ev.kind = "Start"
    /\ DialogKind(app.dialog) = "ConfirmTerminate"
    /\ HasSelected(app)

\* ------------------------------------------------------------------ C2

\* C2: the quit flag changes only when Quit is applied with no dialog open,
\* and then to true; Quit or CancelSettings applied while a dialog is open
\* closes the dialog and leaves the flag false.
C2_QuitOnlyByQuit ==
    [][ /\ (app'.should_quit # app.should_quit) =>
              (Handled({"Quit"}) /\ app.dialog = DNone /\ app'.should_quit)
        /\ (Handled({"Quit", "CancelSettings"}) /\ app.dialog # DNone) =>
              (app'.dialog = DNone /\ ~app'.should_quit) ]_vars

\* Quit was applied while a dialog was open: the dialog is closed and the
\* flag is still false.
C2_Witness ==
    /\ pc = "notify"
    /\ ev.kind = "Quit"
    /\ app.dialog = DNone
    /\ ~app.should_quit

\* ------------------------------------------------------------------ C3

ListLen(a) == IF a.current_screen = "Ec2" THEN Len(a.ec2_instances) ELSE Len(a.lambda_functions)
ListSel(a) == IF a.current_screen = "Ec2" THEN a.ec2_selected ELSE a.lambda_selected

\* C3: on the Instances and Functions screens Up and Down move the
\* selection by one and stop at 0 and at L-1; with an empty list the
\* selection stays.
C3_SelectionClamps ==
    [][ (Handled({"Up", "Down"}) /\ app.dialog = DNone /\ app.current_screen \in {"Ec2", "Lambda"}) =>
          LET L == ListLen(app)
              i == ListSel(app)
              j == ListSel(app')
          IN /\ (L = 0) => (j = i)
             /\ (L > 0 /\ i \in 0..(L - 1) /\ ev'.kind = "Up") => (j = IF i = 0 THEN 0 ELSE i - 1)
             /\ (L > 0 /\ i \in 0..(L - 1) /\ ev'.kind = "Down") => (j = IF i = L - 1 THEN L - 1 ELSE i + 1) ]_vars

\* Down was applied on the Instances screen with the only instance selected.
C3_Witness ==
    /\ pc = "notify"
    /\ ev.kind = "Down"
    /\ app.dialog = DNone
    /\ app.current_screen = "Ec2"
    /\ Len(app.ec2_instances) = 1
    /\ app.ec2_selected = 0
    /\ ticks <= 3

\* ------------------------------------------------------------------ C4

ScheduleEvents == { Ev(k) : k \in {"NoEvent", "Schedule", "Enter", "Down"} }
NextSchedule == EventStep(ScheduleEvents, MaxScheduleTicks) \/ TickSteps
SpecSchedule == Init /\ [][NextSchedule]_vars

EntriesOf(sch, id) == SelectSeq(sch, LAMBDA e : e[1] = id)
EntriesNotOf(sch, id) == SelectSeq(sch, LAMBDA e : e[1] # id)

C5_ToastsPurgedEveryTick ==
    pc = "quit" => \A k \in 1..Len(app.toasts) : ToastFresh(now, app.toasts[k])

\* -------------------------------------------------------------- C6, C7

SettingsEvents ==
    { Ev(k) : k \in {"NoEvent", "OpenSettings", "Up", "Down", "Enter", "Quit", "CancelSettings"} }
    \cup { EvModify(d) : d \in {-1, 1} }
NextSettings == EventStep(SettingsEvents, MaxSettingsTicks) \/ TickSteps
SpecSettings == Init /\ [][NextSettings]_vars

\* C6: a Quit or CancelSettings that follows OpenSettings and only Up, Down
\* and ModifySettingValue events leaves the committed settings and the
\* auto-refresh interval as they were when the dialog opened, and leaves no
\* draft and no open dialog.
C6_DraftIsolation ==
    [][ (/\ Handled({"Quit", "CancelSettings"})
         /\ IsSome(draftBase)
         /\ Unwrap(draftBase).phase = "open") =>
             /\ app'.settings = Unwrap(draftBase).settings
             /\ app'.auto_refresh_interval = Unwrap(draftBase).interval
             /\ app'.settings_draft = None
             /\ app'.dialog = DNone ]_vars

\* The keys that walk the Settings dialog down to TestSound and commit.
CommitEvents ==
    { Ev(k) : k \in {"OpenSettings", "Down", "Enter"} } \cup { EvModify(1) }
NextCommit == EventStep(CommitEvents, MaxCommitTicks) \/ TickSteps
SpecCommit == Init /\ [][NextCommit]_vars

\* C7: Enter in the Settings dialog on a field other than TestSound makes
\* the draft the committed settings, sets the auto-refresh interval to the
\* draft's refresh interval, clears the draft and closes the dialog, whether
\* or not the settings file is written; on TestSound it leaves settings,
\* interval, draft and dialog as they are.
C7_EnterCommitsDraft ==
    [][ (Handled({"Enter"}) /\ app.dialog = DSettings) =>
             /\ IsSome(app.settings_draft)
             /\ IF app.settings_selected_field # "TestSound"
                THEN /\ app'.settings = Unwrap(app.settings_draft)
                     /\ app'.auto_refresh_interval = Unwrap(app.settings_draft).refresh_interval_secs
                     /\ app'.settings_draft = None
                     /\ app'.dialog = DNone
                ELSE /\ app'.settings = app.settings
                     /\ app'.auto_refresh_interval = app.auto_refresh_interval
                     /\ app'.settings_draft = app.settings_draft
                     /\ app'.dialog = DSettings ]_vars

HasToast(a, message) == \E k \in 1..Len(a.toasts) : a.toasts[k].message = message

\* An edited draft was committed although the settings file could not be
\* written, and in a later session Enter on TestSound played the test alert
\* and kept the draft and the dialog.
C7_Witness ==
    /\ pc = "notify"
    /\ ev.kind = "Enter"
    /\ HasToast(app, "Failed to save settings")
    /\ app.settings # DefaultSettings
    /\ app.auto_refresh_interval = app.settings.refresh_interval_secs
    /\ app.toasts[Len(app.toasts)].message = "Test Alert"
    /\ app.settings_selected_field = "TestSound"
    /\ app.settings_draft = Some(app.settings)
    /\ app.dialog = DSettings

\* -------------------------------------------------------------- C8, C9

AlertEvents == { Ev(k) : k \in {"NoEvent", "Enter", "Schedule"} }
NextAlerts == EventStep(AlertEvents, MaxAlertTicks) \/ TickSteps
SpecAlerts == Init /\ [][NextAlerts]_vars

\* The check_alerts call of one loop iteration.
AlertCall == pc = "alerts" /\ pc' = "refresh"

\* C8: a check_alerts call made less than 30 seconds after the previous
\* evaluating call leaves pending_alerts, dialog and last_alert_check
\* unchanged.
C8_AlertsThrottled ==
    [][ (/\ AlertCall
         /\ IsSome(app.last_alert_check)
         /\ now - Unwrap(app.last_alert_check) < 30 * 1000) =>
             /\ app'.pending_alerts = app.pending_alerts
             /\ app'.dialog = app.dialog
             /\ app'.last_alert_check = app.last_alert_check ]_vars

\* A call inside the window of the evaluation that raised the one alert:
\* one entry, the Alert dialog still the one opened then, nothing played.
C8_Witness ==
    /\ pc = "refresh"
    /\ Len(app.pending_alerts) = 1
    /\ app.dialog = DAlert(app.pending_alerts[1])
    /\ IsSome(app.last_alert_check)
    /\ now - Unwrap(app.last_alert_check) \in 1..29999
    /\ app.sounds = 0

IsPrefix(s1, s2) == Len(s1) <= Len(s2) /\ SubSeq(s2, 1, Len(s1)) = s1

\* C9: pending_alerts never holds a message twice, and every step keeps the
\* entries it had, in place.
C9_PendingAlertsUnique ==
    /\ [](\A j, k \in 1..Len(app.pending_alerts) :
             j # k => app.pending_alerts[j] # app.pending_alerts[k])
    /\ [][IsPrefix(app.pending_alerts, app'.pending_alerts)]_vars

\* An evaluating call met an instance past the threshold whose message was
\* already pending: nothing appended, the dismissed dialog not reopened.
C9_Witness ==
    /\ pc = "refresh"
    /\ app.last_alert_check = Some(now)
    /\ app.sounds = 0
    /\ app.dialog = DNone
    /\ \E k \in 1..Len(app.ec2_instances) :
          /\ ExceedsThreshold(app, now, app.ec2_instances[k])
          /\ SeqContains(app.pending_alerts,
                         AlertMsg(app.ec2_instances[k],
                                  now - Unwrap(app.ec2_instances[k].launch_time)))

\* ------------------------------------------------------------------ C10

ThresholdEvents ==
    { Ev(k) : k \in {"NoEvent", "OpenSettings", "Down", "Enter"} } \cup { EvModify(1) }
NextThreshold == EventStep(ThresholdEvents, MaxThresholdTicks) \/ TickSteps
SpecThreshold == Init /\ [][NextThreshold]_vars

\* C10: an evaluating check_alerts call raises an alert for a running,
\* unscheduled instance with a launch time exactly when its running time
\* exceeds alert_threshold_secs of the committed settings.
C10_ThresholdFromSettings ==
    [][ (AlertCall /\ app'.last_alert_check = Some(now)) =>
          \A k \in 1..Len(app.ec2_instances) :
             LET inst == app.ec2_instances[k]
                 past == now - Unwrap(inst.launch_time) > app.settings.alert_threshold_secs * 1000
                 msg == AlertMsg(inst, now - Unwrap(inst.launch_time))
             IN (inst.state = "running" /\ ~has_schedule(app, inst.id) /\ IsSome(inst.launch_time)) =>
                   /\ past => SeqContains(app'.pending_alerts, msg)
                   /\ (SeqContains(app'.pending_alerts, msg) /\ ~SeqContains(app.pending_alerts, msg))
                         => past ]_vars

\* ------------------------------------------------------------------ C11

\* The check_alerts call of one loop iteration went past the throttle.
EvaluatingAlertCall == AlertCall /\ app'.last_alert_check = Some(now)

\* The call appended a message for instance id (messages start with the id).
Recorded(id) ==
    \E j \in (Len(app.pending_alerts) + 1)..Len(app'.pending_alerts) :
        app'.pending_alerts[j][1] = id

\* C11: an evaluating check_alerts call appends a message for an instance
\* exactly when the instance is running, has no schedule entry, has a launch
\* time, has been up strictly longer than the one hour threshold the call
\* compares against, and its message is not pending yet.
C11_AlertIffQualifies ==
    [][ EvaluatingAlertCall =>
          \A k \in 1..Len(app.ec2_instances) :
             LET inst == app.ec2_instances[k]
             IN Recorded(inst.id) <=>
                   /\ inst.state = "running"
                   /\ \A j \in 1..Len(app.auto_stop_schedules) :
                         app.auto_stop_schedules[j][1] # inst.id
                   /\ inst.launch_time # None
                   /\ now - inst.launch_time[1] > 3600 * 1000
                   /\ \A j \in 1..Len(app.pending_alerts) :
                         app.pending_alerts[j] #
                            <<inst.id>> \o format_duration(now - inst.launch_time[1]) ]_vars

\* An evaluating call found i1 past the hour and i2 exactly one hour old:
\* the one alert is i1's.
C11_Witness ==
    /\ pc = "refresh"
    /\ app.last_alert_check = Some(now)
    /\ Len(app.ec2_instances) = 2
    /\ app.ec2_instances[2].state = "running"
    /\ now - Unwrap(app.ec2_instances[2].launch_time) = 3600 * 1000
    /\ app.auto_stop_schedules = <<>>
    /\ Len(app.pending_alerts) = 1
    /\ app.pending_alerts[1][1] = "i1"

\* ------------------------------------------------------------------ C12

LowerLetters == <<"a","b","c","d","e","f","g","h","i","j","k","l","m",
                  "n","o","p","q","r","s","t","u","v","w","x","y","z">>
UpperLetters == <<"A","B","C","D","E","F","G","H","I","J","K","L","M",
                  "N","O","P","Q","R","S","T","U","V","W","X","Y","Z">>
UpperOf(c) ==
    IF \E i \in 1..26 : LowerLetters[i] = c
    THEN UpperLetters[CHOOSE i \in 1..26 : LowerLetters[i] = c]
    ELSE c
to_uppercase(s) == [i \in 1..Len(s) |-> UpperOf(s[i])]
Capitalized(s) == [i \in 1..Len(s) |-> IF i = 1 THEN UpperOf(s[i]) ELSE s[i]]

\* The session-expiry keywords as the specification lists them.
SessionExpiryKeywords ==
    { <<"e","x","p","i","r","e","d","t","o","k","e","n">>,
      <<"e","x","p","i","r","e","d"," ","t","o","k","e","n">>,
      <<"t","o","k","e","n"," ","i","s"," ","e","x","p","i","r","e","d">>,
      <<"s","e","c","u","r","i","t","y"," ","t","o","k","e","n">>,
      <<"i","n","v","a","l","i","d","t","o","k","e","n">>,
      <<"i","n","v","a","l","i","d"," ","t","o","k","e","n">>,
      <<"c","r","e","d","e","n","t","i","a","l","s"," ","h","a","v","e"," ","e","x","p","i","r","e","d">>,
      <<"r","e","q","u","e","s","t","e","x","p","i","r","e","d">>,
      <<"r","e","q","u","e","s","t"," ","h","a","s"," ","e","x","p","i","r","e","d">>,
      <<"a","u","t","h","f","a","i","l","u","r","e">> }

\* Error texts a list call may fail with: every keyword in three casings,
\* every keyword with its first, a middle or its last character missing,
\* each alone and inside a longer message, and two texts without keyword.
ErrPrefix == <<"A","n"," ","e","r","r","o","r"," ","o","c","c","u","r","r","e","d",":"," ">>
ErrSuffix == <<" ","(","4","0","3",")">>
ErrNoSuchBucket == <<"A","c","c","e","s","s","D","e","n","i","e","d",":"," ","n","o"," ","s","u","c","h"," ","b","u","c","k","e","t">>
ExpiryCores ==
    UNION { { kw, to_uppercase(kw), Capitalized(kw),
              RemoveAt(kw, 1), RemoveAt(kw, Len(kw) \div 2), RemoveAt(kw, Len(kw)) }
            : kw \in SessionExpiryKeywords }
ExpiryTexts ==
    ExpiryCores \cup { ErrPrefix \o c \o ErrSuffix : c \in ExpiryCores }
    \cup { <<>>, ErrNoSuchBucket }

\* A Refresh key whose list call fails with one of ExpiryTexts.
FailedRefreshStep ==
    /\ pc = "event"
    /\ ticks < MaxExpiryTicks
    /\ \E e \in ExpiryTexts :
          /\ app' = handle_event(Fresh(app), now + TickRateMs, Ev("Refresh"),
                                 Inputs(ActOk, ListErr(e), TRUE))
          /\ pc' = IF PropagatedResult(app', ListErr(e)) = "Err" THEN "aborted" ELSE "notify"
    /\ now' = now + TickRateMs
    /\ ev' = Ev("Refresh")
    /\ draftBase' = DraftBaseAfter(app, Ev("Refresh"), draftBase)
    /\ ticks' = ticks + 1
    /\ UNCHANGED chan
NextExpiry == FailedRefreshStep \/ TickSteps
SpecExpiry == Init /\ [][NextExpiry]_vars

SameLetter(c, d) ==
    c = d \/ \E i \in 1..26 : {c, d} = {LowerLetters[i], UpperLetters[i]}
HasKeyword(text) ==
    \E kw \in SessionExpiryKeywords :
        \E k \in 0..(Len(text) - Len(kw)) :
            \A j \in 1..Len(kw) : SameLetter(text[k + j], kw[j])

\* The step ran a list call that failed: the status message is the error.
ListCallFailed ==
    /\ app'.calls # <<>>
    /\ app'.calls[Len(app'.calls)][1] \in {"list_ec2_instances", "list_lambda_functions"}
    /\ app'.status_message[1] = "Error: "

\* C12: after a failed list call the dialog is SessionExpired exactly when
\* the error text holds one of the keywords in any casing; otherwise the
\* dialog is what it was when the refresh started (a Refresh key in the
\* SessionExpired dialog closes it before refreshing).
C12_SessionExpiredIffKeyword ==
    [][ ListCallFailed =>
          IF HasKeyword(Tail(app'.status_message))
          THEN app'.dialog = DSessionExpired
          ELSE app'.dialog = (IF app.dialog = DSessionExpired THEN DNone ELSE app.dialog) ]_vars

\* A Refresh failed with a keyword written in capitals inside a longer
\* message, and the SessionExpired dialog is open.
C12_Witness ==
    /\ pc = "notify"
    /\ ev.kind = "Refresh"
    /\ app.dialog = DSessionExpired
    /\ app.status_message = <<"Error: ">> \o ErrPrefix \o to_uppercase(<<"a","u","t","h","f","a","i","l","u","r","e">>) \o ErrSuffix

\* ------------------------------------------------------------ C13, C14

LogsEvents ==
    { Ev(k) : k \in {"OpenSettings", "Down", "Enter", "Refresh"} }
    \cup { EvModify(1) } \cup { EvNavigateTab(i) : i \in 1..4 }
NextLogs == EventStep(LogsEvents, MaxLogsTicks) \/ TickSteps
SpecLogs == Init /\ [][NextLogs]_vars

\* The step ran the refresh protocol: it issued a list call, or it applied
\* Refresh on a screen that has nothing to list.
RefreshRan ==
    \/ \E k \in 1..Len(app'.calls) :
          app'.calls[k][1] \in {"list_ec2_instances", "list_lambda_functions"}
    \/ /\ Handled({"Refresh"})
       /\ app.dialog \in {DNone, DSessionExpired}
       /\ app.current_screen \in {"About", "Logs"}

\* C13: a step that ran the refresh protocol ends with is_loading false and
\* last_refresh equal to the current time, on every screen and whether the
\* list call succeeded or failed.
C13_RefreshEndsStamped ==
    [][ RefreshRan => (app'.is_loading = FALSE /\ app'.last_refresh = Some(now')) ]_vars

\* A Refresh on the Logs screen, some time after the previous refresh.
C13_Witness ==
    /\ pc = "notify"
    /\ ev.kind = "Refresh"
    /\ app.current_screen = "Logs"
    /\ app.status_message = <<"Nothing to refresh on this screen">>
    /\ app.last_refresh = Some(now)
    /\ ~app.is_loading

\* C14: NavigateTab(4) with no dialog open leaves screen and scroll offset
\* unchanged while the committed show_logs_panel is false, and switches to
\* the Logs screen once it is true.
C14_LogsTabGated ==
    [][ (Handled({"NavigateTab"}) /\ ev'.a = 4 /\ app.dialog = DNone) =>
          IF app.settings.show_logs_panel
          THEN app'.current_screen = "Logs"
          ELSE /\ app'.current_screen = app.current_screen
               /\ app'.scroll_offset = app.scroll_offset ]_vars

\* The Logs screen was entered by NavigateTab(4) after the setting was saved.
C14_Witness ==
    /\ pc = "notify"
    /\ ev.kind = "NavigateTab"
    /\ ev.a = 4
    /\ app.settings.show_logs_panel
    /\ app.current_screen = "Logs"
    /\ app.dialog = DNone

\* ------------------------------------------------------------------ C15

BoostEvents ==
    { Ev(k) : k \in {"NoEvent", "Start", "Stop", "Terminate", "Enter", "ShowHelp"} }
    \cup { EvNavigateTab(i) : i \in {1, 3} }
NextBoost == EventStep(BoostEvents, MaxBoostTicks) \/ TickSteps
SpecBoost == Init /\ [][NextBoost]_vars

\* The step made a start, stop or terminate call that succeeded: the call is
\* recorded and the success toast of this moment is there.
ActionSucceeded ==
    /\ \E k \in 1..Len(app'.calls) :
          app'.calls[k][1] \in {"start_instance", "stop_instance", "terminate_instance"}
    /\ \E k \in 1..Len(app'.toasts) :
          /\ app'.toasts[k].created_at = now'
          /\ app'.toasts[k].toast_type = "Success"
          /\ app'.toasts[k].message \in {"Started", "Stopped", "Terminated"}

\* The check_auto_refresh call of one loop iteration.
AutoRefreshCall == pc = "refresh" /\ pc' = "quit"

\* Every instance of the list is running, stopped or terminated.
ListStable ==
    \A k \in 1..Len(app.ec2_instances) :
        app.ec2_instances[k].state \in {"running", "stopped", "terminated"}

\* The latest refresh loaded the instance list it was given.
RefreshReported == app.status_message[1] = "Loaded EC2 instances"

\* C15 as stated: a successful start, stop or terminate leaves the boost
\* flag set, and once a refresh has reported every instance stable, the
\* next check_auto_refresh call, whichever it is, clears the flag.
C15_BoostClearedOnNextCheck ==
    [][ /\ ActionSucceeded => app'.boost_refresh_until_stable
        /\ (AutoRefreshCall /\ app.boost_refresh_until_stable /\ RefreshReported /\ ListStable)
              => ~app'.boost_refresh_until_stable ]_vars

\* C15 amended: a successful start, stop or terminate leaves the boost flag
\* set, and a check_auto_refresh call made with no dialog open on a screen
\* other than About that finds the flag set and every instance stable
\* clears it.
C15_BoostClearedOnNextActiveCheck ==
    [][ /\ ActionSucceeded => app'.boost_refresh_until_stable
        /\ (/\ AutoRefreshCall
            /\ app.boost_refresh_until_stable
            /\ ListStable
            /\ app.dialog = DNone
            /\ app.current_screen # "About")
              => ~app'.boost_refresh_until_stable ]_vars

\* After a successful Start whose refresh reported a stable list, the
\* check of the same iteration has cleared the flag.
C15_Witness ==
    /\ pc = "quit"
    /\ ev.kind = "Start"
    /\ HasToast(app, "Started")
    /\ app.ec2_instances # <<>>
    /\ app.dialog = DNone
    /\ ~app.boost_refresh_until_stable

\* ------------------------------------------------------------------ C16

\* The check_auto_refresh call ran the refresh protocol: last_refresh was
\* stamped by it.
AutoRefreshRan == app'.last_refresh = Some(now) /\ app.last_refresh # Some(now)

\* C16: check_auto_refresh runs the refresh exactly when the screen is not
\* About, no dialog is open, and last_refresh is unset or at least the
\* effective interval old: 5 seconds when the boost flag is set and some
\* instance is not stable, the configured interval otherwise.  On About or
\* with a dialog open it leaves the state as it is and makes no call.
C16_AutoRefreshIffDue ==
    [][ AutoRefreshCall =>
          LET active == app.current_screen # "About" /\ app.dialog = DNone
              interval == IF app.boost_refresh_until_stable /\ ~ListStable
                          THEN 5 ELSE app.auto_refresh_interval
              due == \/ app.last_refresh = None
                     \/ now - app.last_refresh[1] >= interval * 1000
          IN /\ AutoRefreshRan <=> (active /\ due)
             /\ ~active => (app' = [app EXCEPT !.calls = <<>>, !.sounds = 0]) ]_vars

\* In boost mode, with an instance still pending, the check refreshed on an
\* idle iteration: the 5 second interval was the effective one.
C16_Witness ==
    /\ pc = "quit"
    /\ ev.kind = "NoEvent"
    /\ app.boost_refresh_until_stable
    /\ app.last_refresh = Some(now)
    /\ app.calls # <<>>
    /\ app.dialog = DNone

\* ------------------------------------------------------------------ C17

\* The step made a start, stop or terminate call that failed.
ActionFailed ==
    /\ \E k \in 1..Len(app'.calls) :
          app'.calls[k][1] \in {"start_instance", "stop_instance", "terminate_instance"}
    /\ ~ActionSucceeded

\* C17: a failed start, stop or terminate call leaves the boost flag,
\* last_refresh and the instance list as they were and makes no list call;
\* an Error toast of this moment is added, the status message reports the
\* failure, and the loop goes on to its next step.
C17_FailedActionNoRefresh ==
    [][ ActionFailed =>
          /\ app'.boost_refresh_until_stable = app.boost_refresh_until_stable
          /\ app'.last_refresh = app.last_refresh
          /\ app'.ec2_instances = app.ec2_instances
          /\ Len(app'.calls) = 1
          /\ Len(app'.toasts) = Len(app.toasts) + 1
          /\ app'.toasts[Len(app'.toasts)].toast_type = "Error"
          /\ app'.toasts[Len(app'.toasts)].created_at = now'
          /\ app'.status_message[1] \in
                {"Failed to start: ", "Failed to stop: ", "Failed to terminate: "}
          /\ pc' = "notify" ]_vars

\* A confirmed Terminate whose call failed, in boost mode.
C17_Witness ==
    /\ pc = "notify"
    /\ ev.kind = "Enter"
    /\ app.calls # <<>>
    /\ app.calls[1][1] = "terminate_instance"
    /\ app.status_message[1] = "Failed to terminate: "
    /\ app.boost_refresh_until_stable
    /\ app.dialog = DNone

\* ------------------------------------------------------------------ C18

\* C18: Start, Stop, Terminate and Schedule applied with no dialog open on a
\* screen other than Ec2 make no call, open no dialog and change nothing.
C18_InstanceKeysOnEc2Only ==
    [][ (/\ Handled({"Start", "Stop", "Terminate", "Schedule"})
         /\ app.dialog = DNone
         /\ app.current_screen # "Ec2") =>
             app' = [app EXCEPT !.calls = <<>>, !.sounds = 0] ]_vars

\* ------------------------------------------------------------------ C19

TerminateEvents ==
    { Ev(k) : k \in {"Up", "Down", "Terminate", "Enter", "Start"} } \cup { EvNavigateTab(1) }
NextTerminate == EventStep(TerminateEvents, MaxTerminateTicks) \/ TickSteps
SpecTerminate == Init /\ [][NextTerminate]_vars

\* C19: a terminate_instance call is made only by Enter applied while
\* ConfirmTerminate(id) is open, for that id, and after the dialog has been
\* closed; Terminate with no dialog open makes no call and, when the
\* selection is in range, opens ConfirmTerminate for the selected instance.
C19_TerminateOnlyAfterConfirm ==
    [][ /\ \A k \in 1..Len(app'.calls) :
              app'.calls[k][1] = "terminate_instance" =>
                 /\ Handled({"Enter"})
                 /\ app.dialog = <<"ConfirmTerminate", app'.calls[k][2]>>
                 /\ app'.calls[k][3] = "None"
        /\ (Handled({"Terminate"}) /\ app.dialog = DNone) =>
              /\ app'.calls = <<>>
              /\ IF app.ec2_selected < Len(app.ec2_instances)
                 THEN app'.dialog =
                         <<"ConfirmTerminate", app.ec2_instances[app.ec2_selected + 1].id>>
                 ELSE app'.dialog = DNone ]_vars

\* Enter confirmed the termination of i2, selected at index 1 when the
\* dialog was opened.
C19_Witness ==
    /\ pc = "notify"
    /\ ev.kind = "Enter"
    /\ app.ec2_selected = 1
    /\ app.calls # <<>>
    /\ app.calls[1] = <<"terminate_instance", "i2", "None">>

\* ------------------------------------------------------------------ C20

StepOrder ==
    { <<"event", "notify">>, <<"notify", "alerts">>, <<"alerts", "refresh">>,
      <<"refresh", "quit">>, <<"quit", "event">>, <<"quit", "done">> }

\* C20: the steps of an iteration follow each other as event, notifications,
\* alerts, auto-refresh, quit test.  An event is applied only at the event
\* step, notifications are taken from the channel only at the notification
\* step, which ends when the channel is empty, the alert check runs only at
\* the alert step and the list is auto-refreshed only at the refresh step.
C20_StepOrder ==
    [][ /\ pc' # pc => <<pc, pc'>> \in StepOrder
        /\ (ev' # ev \/ ticks' # ticks \/ now' # now) => pc = "event"
        /\ Len(chan') < Len(chan) => (pc = "notify" /\ pc' = "notify")
        /\ (pc = "notify" /\ pc' = "alerts") => (chan = <<>> /\ chan' = <<>>)
        /\ app'.last_alert_check # app.last_alert_check => pc = "alerts"
        /\ (app'.last_refresh # app.last_refresh /\ pc \notin {"event", "notify"})
              => pc = "refresh" ]_vars

\* The SsoLogin of the first iteration failed in its thread and the
\* notification was applied in the same iteration, before the alert check.
C20_Witness ==
    /\ pc = "alerts"
    /\ ticks = 1
    /\ ev.kind = "SsoLogin"
    /\ app.last_alert_check = None
    /\ HasToast(app, "Login Failed")

\* --------------------------------------------------------------- C21

\* The messages of the toasts, oldest first.
ToastMessages(a) == [i \in 1..Len(a.toasts) |-> a.toasts[i].message]

\* The toasts that applying notification n adds.
NotificationToasts(n) ==
    CASE n.kind = "SsoLoginSuccess" -> <<"Login successful", "Switching to profile">>
      [] n.kind = "SsoLoginFailed" ->
           IF n.err = SsoMissingConfig THEN <<"SSO Config Missing">> ELSE <<"Login Failed">>
      [] n.kind = "ProfileActivated" -> <<"Active Profile">>
      [] OTHER -> <<"Failed to switch profile">>

\* C21: check_async_notifications is a non-blocking drain.  The channel
\* changes only by a send at its back or a receive at its front; a receive
\* happens only inside the call and applies the received notification, the
\* oldest one, once; the call goes on while the channel holds a
\* notification and returns, changing nothing, when it finds it empty.
C21_NonBlockingDrain ==
    [][ /\ \/ chan' = chan
           \/ chan' # <<>> /\ chan = SubSeq(chan', 1, Len(chan') - 1)
           \/ chan # <<>> /\ chan' = Tail(chan)
        /\ Len(chan') < Len(chan)
              => /\ pc = "notify" /\ pc' = "notify"
                 /\ ToastMessages(app') = ToastMessages(app) \o NotificationToasts(Head(chan))
        /\ (pc = "notify" /\ chan # <<>>) => pc' = "notify"
        /\ (pc = "notify" /\ chan = <<>> /\ chan' = <<>>)
              => (pc' = "alerts" /\ app' = Fresh(app))
        /\ (pc = "notify" /\ chan' = chan) => chan = <<>> ]_vars

\* One call has received two failed logins, the one sent first being
\* applied first, and has returned with the channel empty.
C21_Witness ==
    /\ pc = "alerts"
    /\ chan = <<>>
    /\ Len(app.toasts) >= 2
    /\ app.toasts[Len(app.toasts) - 1].message = "SSO Config Missing"
    /\ app.toasts[Len(app.toasts) - 1].created_at = now
    /\ app.toasts[Len(app.toasts)].message = "Login Failed"
    /\ app.toasts[Len(app.toasts)].created_at = now

\* ----------------------------------------- profile activation scenarios

\* The Err arm of the match in the task of activate_profile: the result of
\* AwsClient::new is a Result, and an Err is reported as
\* ProfileActivationFailed.
ActivateWorkerErr ==
    /\ \E i \in 1..Len(app.tasks) :
          /\ app.tasks[i].kind = "activate"
          /\ chan' = Append(chan, ProfileActivationFailed("no credentials"))
          /\ app' = [app EXCEPT !.tasks = RemoveAt(@, i)]
    /\ UNCHANGED <<now, pc, ev, ticks, draftBase>>

ProfileEvents ==
    { Ev(k) : k \in {"ConfigureAws", "Enter", "Down", "Quit", "ShowHelp", "OpenSettings"} }
    \cup { EvNavigateTab(3) }
NextProfiles ==
    \/ EventStep(ProfileEvents, MaxProfileTicks)
    \/ TickSteps
    \/ ActivateWorker
    \/ ActivateWorkerErr
SpecProfiles == Init /\ [][NextProfiles]_vars

\* --------------------------------------------------------------- C22

\* A step of check_async_notifications that applies a notification of
\* kind k.
Applied(k) ==
    pc = "notify" /\ chan # <<>> /\ chan' = Tail(chan) /\ Head(chan).kind = k

LastToast(a) == a.toasts[Len(a.toasts)]

\* The refresh protocol ran in this step with no dialog open: the list of
\* the current screen was requested once, or the screen has none, and the
\* closing stamps were written.
RefreshedWithNoDialog ==
    /\ app'.last_refresh = Some(now)
    /\ ~app'.is_loading
    /\ IF app.current_screen \in {"Ec2", "Home"}
       THEN app'.calls = << <<"list_ec2_instances", "", "None">> >>
       ELSE IF app.current_screen = "Lambda"
            THEN app'.calls = << <<"list_lambda_functions", "", "None">> >>
            ELSE /\ app'.calls = <<>>
                 /\ app'.status_message = <<"Nothing to refresh on this screen">>

\* C22: applying ProfileActivated(client, name) installs the client, sets
\* configured, sets the active profile name to name, closes the open
\* dialog, adds a Success toast and runs the refresh protocol (after which
\* the only dialog that can be open is the SessionExpired one the refresh
\* itself raised).  Applying ProfileActivationFailed clears loading and
\* adds an Error toast, with the client, the active profile name and the
\* dialog unchanged.
C22_ProfileNotifications ==
    [][ /\ Applied("ProfileActivated")
           => /\ app'.aws_client = Head(chan).client
              /\ app'.aws_configured
              /\ app'.active_profile_name = Some(Head(chan).profile)
              /\ Len(app'.toasts) = Len(app.toasts) + 1
              /\ LastToast(app').message = "Active Profile"
              /\ LastToast(app').toast_type = "Success"
              /\ RefreshedWithNoDialog
              /\ app'.dialog \in {DNone, DSessionExpired}
              /\ app'.dialog = DSessionExpired
                    => /\ IsPrefix(<<"Error: ">>, app'.status_message)
                       /\ is_session_expired_error(
                             SubSeq(app'.status_message, 2, Len(app'.status_message)))
        /\ Applied("ProfileActivationFailed")
           => /\ ~app'.is_loading
              /\ Len(app'.toasts) = Len(app.toasts) + 1
              /\ LastToast(app').message = "Failed to switch profile"
              /\ LastToast(app').toast_type = "Error"
              /\ app'.aws_client = app.aws_client
              /\ app'.active_profile_name = app.active_profile_name
              /\ app'.dialog = app.dialog ]_vars

\* A first activation of "dev" failed, which left the profile dialog open;
\* the second one succeeded, which closed it and loaded a list.
C22_Witness ==
    /\ HasToast(app, "Failed to switch profile")
    /\ LastToast(app).message = "Active Profile"
    /\ app.aws_client = "dev"
    /\ app.active_profile_name = Some("dev")
    /\ app.dialog = DNone
    /\ app.ec2_instances # <<>>

\* --------------------------------------------------------------- C23

RaceEvents == { Ev(k) : k \in {"ConfigureAws", "Enter", "Down", "Up"} }
NextRace ==
    \/ EventStep(RaceEvents, MaxProfileTicks)
    \/ TickSteps
    \/ ActivateWorker
SpecRace == Init /\ [][NextRace]_vars

\* No activation is under way: no task is running and no result is queued.
ActivationsSettled ==
    /\ \A i \in 1..Len(app.tasks) : app.tasks[i].kind # "activate"
    /\ \A i \in 1..Len(chan) : chan[i].kind # "ProfileActivated"

\* C23: the client delivered in ProfileActivated(client, name) was built
\* while the process-wide profile selector held name, and once every
\* activation has been applied the active profile name, the selector and
\* the identity of the installed client are the most recently requested
\* profile.
C23_ClientBuiltUnderRequestedName ==
    /\ \A i \in 1..Len(chan) :
          chan[i].kind = "ProfileActivated" => chan[i].client = chan[i].profile
    /\ (ActivationsSettled /\ IsSome(app.env_profile))
          => /\ app.active_profile_name = app.env_profile
             /\ app.aws_client = Unwrap(app.env_profile)

\* --------------------------------------------------------------- C24

SessionEvents == { Ev(k) : k \in {"NoEvent", "Refresh", "Down", "ShowHelp"} }
NextSession == EventStep(SessionEvents, MaxSessionTicks) \/ TickSteps
SpecSession == Init /\ [][NextSession]_vars

\* The list call of the current screen, made once with no dialog open.
ListedWithNoDialog ==
    app'.calls = IF app.current_screen = "Lambda"
                 THEN << <<"list_lambda_functions", "", "None">> >>
                 ELSE << <<"list_ec2_instances", "", "None">> >>

\* The list call of the step failed with a session-expiry error.
FailedWithExpiry ==
    /\ app'.status_message[1] = "Error: "
    /\ is_session_expired_error(Tail(app'.status_message))

\* C24: a Refresh applied while the SessionExpired dialog is open closes
\* the dialog before the refresh protocol runs, so the list call is made
\* with no dialog open; after the handler the dialog is SessionExpired if
\* the list call failed with a session-expiry error and None otherwise.  A
\* Refresh applied while any other dialog is open changes nothing and
\* makes no client call.
C24_RefreshInSessionExpired ==
    [][ /\ (Handled({"Refresh"}) /\ app.dialog = DSessionExpired)
           => /\ RefreshRan
              /\ app.current_screen \in {"Ec2", "Home", "Lambda"} => ListedWithNoDialog
              /\ app'.dialog = IF app.current_screen \in {"Ec2", "Home", "Lambda"}
                                  /\ FailedWithExpiry
                               THEN DSessionExpired
                               ELSE DNone
        /\ (Handled({"Refresh"}) /\ app.dialog \notin {DNone, DSessionExpired})
           => app' = Fresh(app) ]_vars

\* A Refresh failed with an expiry error, Down moved the highlighted
\* profile in the SessionExpired dialog, and a second Refresh failed with
\* another error: the dialog is closed.
C24_Witness ==
    /\ pc = "notify"
    /\ ticks = 3
    /\ ev.kind = "Refresh"
    /\ app.selected_profile_index = 1
    /\ app.dialog = DNone
    /\ app.calls # <<>>
    /\ app.status_message = <<"Error: ">> \o ErrDenied

\* --------------------------------------------------------------- C25

OpenEvents ==
    { Ev(k) : k \in {"NoEvent", "ShowHelp", "OpenSettings", "ConfigureAws", "ShowChangelog",
                     "Terminate", "Schedule", "Refresh", "Down", "Quit"} }
    \cup { EvNavigateTab(3) }
NextOpen == EventStep(OpenEvents, MaxOpenTicks) \/ TickSteps
SpecOpen == Init /\ [][NextOpen]_vars

\* C25: every step that replaces the dialog by a different dialog other
\* than None ends with the dialog scroll offset at 0, whichever event,
\* alert or failed refresh opened it.
C25_OpenResetsScroll ==
    [][ (app'.dialog # app.dialog /\ app'.dialog # DNone)
           => app'.dialog_scroll_offset = 0 ]_vars

\* Three Down keys in the Settings dialog selected AlertThreshold, which
\* scrolled the dialog to keep the row visible; ConfigureAws then replaced
\* the dialog and the offset is 0 again.
C25_Witness ==
    /\ pc = "notify"
    /\ ticks = 5
    /\ ev.kind = "ConfigureAws"
    /\ app.settings_selected_field = "AlertThreshold"
    /\ app.dialog = DConfigureAws
    /\ app.dialog_scroll_offset = 0

\* ------------------------------------------------ dialog navigation

\* Profile lists and terminal sizes the program may start with: main sets
\* window_size from the terminal before run is called.
NavProfileLists == { <<>>, <<"dev">>, <<"dev", "prod", "stage">> }
NavWindowSizes == { <<80, 24>>, <<120, 12>>, <<80, 5>> }

InitSized(profile_lists, sizes) ==
    /\ \E configured \in BOOLEAN, profiles \in profile_lists, sz \in sizes :
          app = [NewApp(configured, profiles) EXCEPT !.window_size = sz]
    /\ now = StartTime
    /\ pc = "event"
    /\ ev = Ev("NoEvent")
    /\ chan = <<>>
    /\ ticks = 0
    /\ draftBase = None

InitNav == InitSized(NavProfileLists, NavWindowSizes)

NavEvents ==
    { Ev(k) : k \in {"Up", "Down", "OpenSettings", "ConfigureAws"} }
NextNav == EventStep(NavEvents, MaxNavTicks) \/ TickSteps
SpecNav == InitNav /\ [][NextNav]_vars

\* --------------------------------------------------------------- C26

\* maxScroll of a dialog showing the given number of content lines in the
\* given percentage of a window of height h.
MaxScrollOf(lines, percent, h) == Max(lines - ((h * percent) \div 100 - 2), 0)

SettingsMaxScroll == MaxScrollOf(15, 60, app.window_size[2])

\* Position of a settings field in the fixed order, from 1.
FieldPos(f) == CHOOSE i \in 1..Len(SettingsFields) : SettingsFields[i] = f

\* C26: in the Settings dialog Up and Down do not wrap.  Up at
\* RefreshInterval keeps the field and lowers the scroll offset by one,
\* stopping at 0; Down at TestSound keeps the field and raises the offset
\* by one only while it is below maxScroll; at any other field Up selects
\* the previous and Down the next field of the order RefreshInterval,
\* ShowLogsPanel, LogLevel, AlertThreshold, SoundEnabled, TestSound.
C26_SettingsNoWrap ==
    [][ /\ (Handled({"Up"}) /\ app.dialog = DSettings)
           => IF app.settings_selected_field = "RefreshInterval"
              THEN /\ app'.settings_selected_field = "RefreshInterval"
                   /\ app'.dialog_scroll_offset = Max(app.dialog_scroll_offset - 1, 0)
              ELSE app'.settings_selected_field =
                      SettingsFields[FieldPos(app.settings_selected_field) - 1]
        /\ (Handled({"Down"}) /\ app.dialog = DSettings)
           => IF app.settings_selected_field = "TestSound"
              THEN /\ app'.settings_selected_field = "TestSound"
                   /\ app'.dialog_scroll_offset =
                         IF app.dialog_scroll_offset < SettingsMaxScroll
                         THEN app.dialog_scroll_offset + 1
                         ELSE app.dialog_scroll_offset
              ELSE app'.settings_selected_field =
                      SettingsFields[FieldPos(app.settings_selected_field) + 1] ]_vars

\* In a window of height 12, Down selected ShowLogsPanel and scrolled the
\* dialog to line 4, Up selected RefreshInterval again, and a second Up
\* kept the field and scrolled to line 3.
C26_Witness ==
    /\ pc = "notify"
    /\ ticks = 4
    /\ ev.kind = "Up"
    /\ app.window_size[2] = 12
    /\ app.dialog = DSettings
    /\ app.settings_selected_field = "RefreshInterval"
    /\ app.dialog_scroll_offset = 3

\* --------------------------------------------------------------- C27

PickEvents == { Ev(k) : k \in {"ConfigureAws", "Up", "Down", "Enter"} }
NextPick == EventStep(PickEvents, MaxPickTicks) \/ TickSteps
SpecPick == InitNav /\ [][NextPick]_vars

\* maxScroll of the open profile dialog.
ProfileMaxScroll ==
    IF app.dialog = DConfigureAws
    THEN MaxScrollOf(5 + Max(Len(app.available_profiles), 1) + 1, 50, app.window_size[2])
    ELSE MaxScrollOf(25, 60, app.window_size[2])

LastProfile == Max(Len(app.available_profiles) - 1, 0)

\* C27: in the ConfigureAws and SessionExpired dialogs Up and Down move the
\* highlighted profile by exactly one while that stays inside the list;
\* at the first profile Up scrolls the dialog up and at the last one (or
\* with no profile) Down scrolls it down, the index staying where it is.
\* So the index is inside the list whenever the list is not empty, and
\* Enter with an empty list activates nothing.
C27_ProfileIndexClamped ==
    /\ [](app.available_profiles # <<>>
             => app.selected_profile_index \in 0..(Len(app.available_profiles) - 1))
    /\ [][ /\ (Handled({"Up"}) /\ IsProfileDialog(app))
              => IF app.selected_profile_index > 0
                 THEN app'.selected_profile_index = app.selected_profile_index - 1
                 ELSE /\ app'.selected_profile_index = 0
                      /\ app'.dialog_scroll_offset = Max(app.dialog_scroll_offset - 1, 0)
           /\ (Handled({"Down"}) /\ IsProfileDialog(app))
              => IF app.selected_profile_index < LastProfile
                 THEN app'.selected_profile_index = app.selected_profile_index + 1
                 ELSE /\ app'.selected_profile_index = app.selected_profile_index
                      /\ app'.dialog_scroll_offset =
                            IF app.dialog_scroll_offset < ProfileMaxScroll
                            THEN app.dialog_scroll_offset + 1
                            ELSE app.dialog_scroll_offset
           /\ (Handled({"Enter"}) /\ IsProfileDialog(app) /\ app.available_profiles = <<>>)
              => app' = Fresh(app) ]_vars

\* With three profiles, two Down keys highlighted the last one and a third
\* one left it there.
C27_Witness ==
    /\ pc = "notify"
    /\ ticks = 4
    /\ ev.kind = "Down"
    /\ app.dialog = DConfigureAws
    /\ Len(app.available_profiles) = 3
    /\ app.selected_profile_index = 2

\* --------------------------------------------------------------- C28

ScrollWindowSizes == { <<80, 5>>, <<80, 24>>, <<120, 40>>, <<200, 80>> }
ScrollEvents ==
    { Ev(k) : k \in {"NoEvent", "Up", "Down", "ShowHelp", "Terminate", "Schedule",
                     "ShowChangelog", "Quit"} }
    \cup { EvNavigateTab(3) }
NextScroll == EventStep(ScrollEvents, MaxScrollTicks) \/ TickSteps
InitScroll == InitSized(ProfileLists, ScrollWindowSizes)
SpecScroll == InitScroll /\ [][NextScroll]_vars

ScrollOnlyKinds ==
    {"Help", "Setup", "ConfirmTerminate", "ScheduleAutoStop", "Alert", "Changelog"}

\* maxScroll of the open dialog, from its height percentage and number of
\* content lines.
ScrollOnlyMaxScroll(a) ==
    LET h == a.window_size[2]
        k == DialogKind(a.dialog)
    IN CASE k = "Help" -> MaxScrollOf(27, 60, h)
         [] k = "Setup" -> MaxScrollOf(27, 70, h)
         [] k = "ConfirmTerminate" -> MaxScrollOf(12, 30, h)
         [] k = "ScheduleAutoStop" -> MaxScrollOf(12, 30, h)
         [] k = "Alert" -> MaxScrollOf(10, 25, h)
         [] k = "Changelog" -> MaxScrollOf(50, 70, h)
         [] OTHER -> 0

\* C28: while a Help, Setup, ConfirmTerminate, ScheduleAutoStop, Alert or
\* Changelog dialog is open the dialog scroll offset is between 0 and the
\* maxScroll of that dialog in the current window; Up lowers it by one,
\* stopping at 0, and Down raises it by one only from below maxScroll and
\* otherwise leaves it.
C28_DialogScrollBounded ==
    /\ [](DialogKind(app.dialog) \in ScrollOnlyKinds
             => app.dialog_scroll_offset \in 0..ScrollOnlyMaxScroll(app))
    /\ [][ /\ (Handled({"Up"}) /\ DialogKind(app.dialog) \in ScrollOnlyKinds)
              => app'.dialog_scroll_offset = Max(app.dialog_scroll_offset - 1, 0)
           /\ (Handled({"Down"}) /\ DialogKind(app.dialog) \in ScrollOnlyKinds)
              => /\ app'.dialog_scroll_offset \in
                       {app.dialog_scroll_offset, app.dialog_scroll_offset + 1}
                 /\ app'.dialog_scroll_offset # app.dialog_scroll_offset
                       => app.dialog_scroll_offset < ScrollOnlyMaxScroll(app) ]_vars

\* In a window of height 40 the ConfirmTerminate dialog has maxScroll 2:
\* three Down keys after Terminate left the offset at 2.
C28_Witness ==
    /\ pc = "notify"
    /\ ticks = 5
    /\ ev.kind = "Down"
    /\ app.window_size[2] = 40
    /\ DialogKind(app.dialog) = "ConfirmTerminate"
    /\ app.dialog_scroll_offset = 2

\* --------------------------------------------------------------- C29

\* Lines of the open dialog that show content.
AvailableHeight(a) ==
    Max((a.window_size[2] * (IF a.dialog = DSettings THEN 60 ELSE 50)) \div 100 - 3, 0)

\* Line of the selected settings row or of the highlighted profile.
TargetLine(a) ==
    IF a.dialog = DSettings
    THEN 5 + 2 * (FieldPos(a.settings_selected_field) - 1)
    ELSE 5 + a.selected_profile_index

\* An Up or Down key changed the selected settings field or the
\* highlighted profile.
SelectionMoved ==
    /\ Handled({"Up", "Down"})
    /\ \/ app.dialog = DSettings
          /\ app'.settings_selected_field # app.settings_selected_field
       \/ IsProfileDialog(app)
          /\ app'.selected_profile_index # app.selected_profile_index

SelectedLineVisible(a) ==
    /\ a.dialog_scroll_offset <= TargetLine(a)
    /\ TargetLine(a) < a.dialog_scroll_offset + AvailableHeight(a)

\* C29: after every Up or Down that changes the selected settings field or
\* the highlighted profile, the selected line is inside the visible
\* window, for every window height.
C29_SelectionVisible ==
    [][ SelectionMoved => SelectedLineVisible(app') ]_vars

\* C29, restricted to windows in which the dialog shows at least one line
\* of content.
C29_SelectionVisibleWhenRoom ==
    [][ (SelectionMoved /\ AvailableHeight(app) >= 1) => SelectedLineVisible(app') ]_vars

\* In a window of height 12 the Settings dialog shows 4 lines; Down
\* selected ShowLogsPanel on line 7 and the dialog scrolled to line 4.
C29_Witness ==
    /\ pc = "notify"
    /\ ticks = 2
    /\ ev.kind = "Down"
    /\ app.window_size[2] = 12
    /\ app.dialog = DSettings
    /\ app.settings_selected_field = "ShowLogsPanel"
    /\ app.dialog_scroll_offset = 4

\* --------------------------------------------------------------- C30

ResizeEvents ==
    { Ev(k) : k \in {"Up", "Down"} }
    \cup { EvNavigateTab(i) : i \in {0, 3} }
    \cup { EvResize(80, 24), EvResize(120, 40) }
NextResize == EventStep(ResizeEvents, MaxResizeTicks) \/ TickSteps
SpecResize == Init /\ [][NextResize]_vars

\* maxScroll of the content of a scrolling screen in the current window.
ContentMaxScroll(a) ==
    LET w == a.window_size[1]
        h == a.window_size[2]
        contentHeight ==
            CASE a.current_screen = "Home" -> IF w >= 100 THEN 18 ELSE 25
              [] a.current_screen = "About" -> IF w >= 100 THEN 30 ELSE 58
              [] OTHER -> 50
    IN Max(contentHeight - (h - 8), 0)

\* C30: on the Home, About and Logs screens the content scroll offset is
\* between 0 and maxScroll of the current screen and window in every
\* reachable state, after any sequence of Up, Down, NavigateTab and Resize
\* events.
C30_ContentScrollBounded ==
    app.current_screen \in {"Home", "About", "Logs"}
        => app.scroll_offset \in 0..ContentMaxScroll(app)

\* --------------------------------------------------------------- C31

ModifyEvents ==
    { Ev(k) : k \in {"NoEvent", "OpenSettings", "Down", "ShowHelp"} }
    \cup { EvModify(d) : d \in {-1, 1} }
NextModify == EventStep(ModifyEvents, MaxModifyTicks) \/ TickSteps
SpecModify == Init /\ [][NextModify]_vars

\* The draft after the value of the selected field was cycled or toggled.
EditedDraft(a, delta) ==
    LET draft == Unwrap(a.settings_draft)
        f == a.settings_selected_field
    IN CASE f = "RefreshInterval" -> cycle_refresh_interval(draft, delta > 0)
         [] f = "ShowLogsPanel" -> toggle_logs_panel(draft)
         [] f = "LogLevel" -> cycle_log_level(draft, delta > 0)
         [] f = "AlertThreshold" -> cycle_alert_threshold(draft, delta > 0)
         [] f = "SoundEnabled" -> toggle_sound(draft)
         [] f = "TestSound" -> draft

\* C31: ModifySettingValue(delta) changes nothing unless the Settings
\* dialog is open; when it is, the only field of the state that changes is
\* the draft, which becomes the draft with the value of the selected field
\* cycled in the direction of delta or toggled, so the committed settings
\* and the auto-refresh interval stay; with TestSound selected the draft
\* stays too.
C31_ModifyEditsDraftOnly ==
    [][ Handled({"ModifySettingValue"})
           => IF app.dialog = DSettings
              THEN /\ IsSome(app.settings_draft)
                   /\ app' = [Fresh(app) EXCEPT
                                 !.settings_draft = Some(EditedDraft(app, ev'.a))]
                   /\ app.settings_selected_field = "TestSound" => app' = Fresh(app)
              ELSE app' = Fresh(app) ]_vars

\* ModifySettingValue(-1) on RefreshInterval took the draft from 60 back
\* to 30 seconds, the committed settings still being the defaults.
C31_Witness ==
    /\ pc = "notify"
    /\ ev = EvModify(-1)
    /\ app.dialog = DSettings
    /\ app.settings_selected_field = "RefreshInterval"
    /\ Unwrap(app.settings_draft).refresh_interval_secs = 30
    /\ app.settings = DefaultSettings
    /\ app.auto_refresh_interval = 60
    /\ ticks = 2

\* --------------------------------------------------------------- C32

SuspendMs == 3600 * 1000 + TickRateMs
SuspendStep(MaxT) ==
    /\ pc = "event"
    /\ ticks < MaxT
    /\ now' = now + SuspendMs
    /\ ev' = Ev("NoEvent")
    /\ app' = Fresh(app)
    /\ draftBase' = DraftBaseAfter(app, Ev("NoEvent"), draftBase)
    /\ ticks' = ticks + 1
    /\ pc' = "notify"
    /\ UNCHANGED chan

AdvisoryEvents == { Ev(k) : k \in {"NoEvent", "Schedule", "Enter", "Stop"} }
NextAdvisory ==
    \/ EventStep(AdvisoryEvents, MaxAdvisoryTicks)
    \/ SuspendStep(MaxAdvisoryTicks)
    \/ TickSteps
SpecAdvisory == Init /\ [][NextAdvisory]_vars

\* The id of an instance is scheduled in state a.
Scheduled(a, id) ==
    \E k \in 1..Len(a.auto_stop_schedules) : a.auto_stop_schedules[k][1] = id

\* C33: schedule entries are advisory.  A stop_instance call is made only
\* by a Stop event; an entry leaves the collection only when Enter in the
\* ScheduleAutoStop dialog of its id puts a new entry for that id; and
\* check_alerts records no alert for an instance that has an entry, also
\* when the stop time of the entry has passed.
C33_SchedulesAdvisory ==
    [][ /\ (\E k \in 1..Len(app'.calls) : app'.calls[k][1] = "stop_instance")
           => (Handled({"Stop"}) /\ app.dialog = DNone)
        /\ \A k \in 1..Len(app.auto_stop_schedules) :
              \/ SeqContains(app'.auto_stop_schedules, app.auto_stop_schedules[k])
              \/ /\ Handled({"Enter"})
                 /\ app.dialog = DScheduleAutoStop(app.auto_stop_schedules[k][1])
                 /\ Scheduled(app', app.auto_stop_schedules[k][1])
        /\ AlertCall
           => \A j \in (Len(app.pending_alerts) + 1)..Len(app'.pending_alerts) :
                 ~Scheduled(app, app'.pending_alerts[j][1]) ]_vars

\* An evaluating check_alerts call has just run more than an hour after i2
\* was scheduled: i2 is running, past the threshold and past its stop
\* time, and no alert names it.
C33_Witness ==
    /\ pc = "refresh"
    /\ app.last_alert_check = Some(now)
    /\ SeqContains(app.ec2_instances, Inst("i2", "running"))
    /\ \E k \in 1..Len(app.auto_stop_schedules) :
          /\ app.auto_stop_schedules[k][1] = "i2"
          /\ app.auto_stop_schedules[k][2] < now
    /\ \A j \in 1..Len(app.pending_alerts) : app.pending_alerts[j][1] # "i2"

\* --------------------------------------------------------------- C34

\* C34: in every reachable state a settings draft is held exactly when the
\* open dialog is Settings.
C34_DraftIffSettings == IsSome(app.settings_draft) <=> app.dialog = DSettings

\* --------------------------------------------------------------- C35

\* C35: whenever the instance list is not empty the instance selection is
\* an index of it, and likewise for the function list, also after a
\* refresh has put a shorter list; Start, Stop, Terminate and Schedule
\* applied with a selection outside the list change nothing.
C35_SelectionInRange ==
    /\ [](/\ app.ec2_instances # <<>> => app.ec2_selected \in 0..(Len(app.ec2_instances) - 1)
          /\ app.lambda_functions # <<>>
                => app.lambda_selected \in 0..(Len(app.lambda_functions) - 1))
    /\ [][ (/\ Handled({"Start", "Stop", "Terminate", "Schedule"})
            /\ app.dialog = DNone
            /\ app.ec2_selected >= Len(app.ec2_instances))
              => app' = Fresh(app) ]_vars

\* --------------------------------------------------------------- C36

\* C36: after a Resize(w, h) event is applied the stored window size is
\* (w, h), with or without a dialog open.
C36_ResizeStored ==
    [][ Handled({"Resize"}) => app'.window_size = <<ev'.a, ev'.b>> ]_vars

\* --------------------------------------------------------------- C37

PanelEvents ==
    { Ev(k) : k \in {"OpenSettings", "Down", "Enter"} }
    \cup { EvModify(1), EvNavigateTab(4) }
NextPanel == EventStep(PanelEvents, MaxPanelTicks) \/ TickSteps
SpecPanel == Init /\ [][NextPanel]_vars

\* C37: the Logs screen is shown only while the committed show_logs_panel
\* setting is true.
C37_LogsScreenOnlyWhenEnabled ==
    app.current_screen = "Logs" => app.settings.show_logs_panel

\* --------------------------------------------------------------- C38

\* C38: every message a check_alerts call appends to pending_alerts is the
\* payload of the Alert dialog open when the call returns.
C38_RecordedAlertShown ==
    [][ AlertCall =>
          \A k \in (Len(app.pending_alerts) + 1)..Len(app'.pending_alerts) :
              app'.dialog = DAlert(app'.pending_alerts[k]) ]_vars

\* --------------------------------------------------------------- C39

\* C39: a check_alerts call that starts with a dialog open returns with the
\* same dialog, payload included.
C39_AlertsKeepOpenDialog ==
    [][ (AlertCall /\ app.dialog # DNone) => app'.dialog = app.dialog ]_vars

\* --------------------------------------------------------------- C40

\* An iteration past the last counted one: poll_event times out, and
\* neither the iteration count nor the clock of the model moves on.
IdleStep(MaxT) ==
    /\ pc = "event"
    /\ ticks = MaxT
    /\ ev' = Ev("NoEvent")
    /\ app' = Fresh(app)
    /\ pc' = "notify"
    /\ UNCHANGED <<now, chan, ticks, draftBase>>

LoadingEvents == { Ev(k) : k \in {"NoEvent", "ConfigureAws", "Enter", "Down", "Refresh"} }
PollStep == EventStep(LoadingEvents, MaxLoadingTicks) \/ IdleStep(MaxLoadingTicks)
NextLoading == PollStep \/ TickSteps \/ ActivateWorker

\* The loop of run keeps iterating and every spawned task gets to run.
SpecLoading ==
    /\ Init
    /\ [][NextLoading]_vars
    /\ WF_vars(PollStep)
    /\ WF_vars(TickSteps)
    /\ WF_vars(ActivateWorker)

\* An activate_profile call whose notification has not been applied yet:
\* its task is running, or its result is queued on the channel.
ActivationPending ==
    \/ \E i \in 1..Len(app.tasks) : app.tasks[i].kind = "activate"
    \/ \E i \in 1..Len(chan) :
          chan[i].kind \in {"ProfileActivated", "ProfileActivationFailed"}

LoadingWhilePending == ActivationPending => app.is_loading

LoadingEventuallyCleared == ActivationPending ~> ~app.is_loading

\* C40: is_loading is true in every state between an activate_profile call
\* and the application of its own notification, and every activate_profile
\* call is eventually followed by a state with is_loading false.
C40_LoadingCoversActivation ==
    /\ []LoadingWhilePending
    /\ LoadingEventuallyCleared
====
